---- MODULE Spec2Model ----
(***************************************************************************)
(* HERMES-CXL: the block allocator (CXLAllocator) over the mapped region   *)
(* (CXLMemoryManager) of src/src/app/cxl_system.cpp.                       *)
(*                                                                         *)
(* size_t and pointers are unsigned machine words; the model keeps the     *)
(* wrap-around of the word at a reduced width (WordBits bits).  Extents    *)
(* are std::pair<size_t,size_t>, modelled as <<offset, size>>.             *)
(***************************************************************************)
EXTENDS Integers, Sequences, FiniteSets, TLC

VARIABLES
    fd,                \* CXLMemoryManager::fd
    mapped_region,     \* CXLMemoryManager::mapped_region (an address, NULL = 0)
    region_size,       \* CXLMemoryManager::region_size
    initialized,       \* CXLMemoryManager::initialized
    free_blocks,       \* CXLAllocator::free_blocks, in vector order
    allocated_blocks,  \* CXLAllocator::allocated_blocks, in vector order
    last,              \* the last call made on the allocator and what it returned
    calls,             \* the number of calls made so far
    allocation_mutex,  \* CXLAllocator::allocation_mutex: its owner, or Unlocked
    pc,                \* for each concurrent caller, the statement it is at
    frame,             \* for each concurrent caller, the locals of its call
    mem,               \* the bytes of the device, by device offset
    open_fds,          \* the descriptors the process holds open
    mappings,          \* the base addresses of the live mappings of the device
    phase,             \* what the manager's last initialize / cleanup did
    device_fd,         \* CXLDeviceDriver::device_fd
    cmd,               \* CXLDeviceDriver::cmd
    cmd_list,          \* cxl_fpga_device::cmd_list, in list order
    delivered,         \* the commands whose terminal status a query returned
    dev_mutex,         \* cxl_fpga_device::dev_mutex: its owner, or Unlocked
    cmd_lock,          \* cxl_fpga_device::cmd_lock: its owner, or Unlocked
    freed              \* the commands handed to kfree, in the order of the calls

vars == <<fd, mapped_region, region_size, initialized,
          free_blocks, allocated_blocks, last, calls,
          allocation_mutex, pc, frame, mem, open_fds, mappings, phase,
          device_fd, cmd, cmd_list, delivered, dev_mutex, cmd_lock, freed>>

region_vars == <<fd, mapped_region, region_size, initialized>>

thread_vars == <<allocation_mutex, pc, frame>>

device_vars == <<mem, open_fds, mappings, phase>>

allocator_vars == <<free_blocks, allocated_blocks>>

kernel_vars == <<dev_mutex, cmd_lock, freed>>

channel_vars == <<device_fd, cmd, cmd_list, delivered, kernel_vars>>

----------------------------------------------------------------------------
(* Bounds of the model *)

\* width of size_t / of a pointer, in bits (64 in the build)
WordBits == 11
\* the size handed to CXLMemoryManager::initialize (1 GB in main)
RegionSize == 8
\* the number of entries the allocated list may hold before allocate is no
\* longer called
MaxBlocks == 3
\* the number of calls made on the allocator in one run
MaxCalls == 5
\* the number of calls in one run of small requests
MaxDeepCalls == 6

\* calls made by the concurrent callers together in one run
MaxConcCalls == 4

\* calls made on the manager in one run
MaxRegionCalls == 3

\* calls made on the command channel in one run
MaxChannelCalls == 4

WordMod == 2 ^ WordBits

NULL == 0

\* the address mmap returned for the region
MapBase == 2 * RegionSize
\* the descriptor open returned
DeviceFd == 3

----------------------------------------------------------------------------
(* Machine arithmetic *)

Wrap(x) == x % WordMod

RECURSIVE BitAnd(_, _)
BitAnd(a, b) ==
    IF a = 0 \/ b = 0 THEN 0
    ELSE (a % 2) * (b % 2) + 2 * BitAnd(a \div 2, b \div 2)

BitNot(a) == (WordMod - 1) - a

\* x & ~(alignment - 1): rounding down
AlignDown(x, alignment) == BitAnd(Wrap(x), BitNot(Wrap(alignment - 1)))

\* (x + alignment - 1) & ~(alignment - 1)
AlignUp(x, alignment) ==
    BitAnd(Wrap(x + alignment - 1), BitNot(Wrap(alignment - 1)))

IsPowerOfTwo(a) == \E k \in 0 .. (WordBits - 1) : a = 2 ^ k

----------------------------------------------------------------------------
(* Sequences of extents *)

Offset(b) == b[1]
Size(b) == b[2]

\* vector::erase(begin() + i - 1)
Erase(s, i) == [k \in 1 .. (Len(s) - 1) |-> IF k < i THEN s[k] ELSE s[k + 1]]

\* operator< of std::pair
PairLess(a, b) == a[1] < b[1] \/ (a[1] = b[1] /\ a[2] < b[2])

RECURSIVE SortBlocks(_)
\* std::sort(free_blocks.begin(), free_blocks.end())
SortBlocks(s) ==
    IF Len(s) <= 1 THEN s
    ELSE LET m == CHOOSE i \in 1 .. Len(s) :
                    \A j \in 1 .. Len(s) : ~PairLess(s[j], s[i])
         IN <<s[m]>> \o SortBlocks(Erase(s, m))

\* a merge that erases the right block without adding its size to the left
MergeAtDrop(s, i) == Erase(s, i + 1)

\* free_blocks[i].second += free_blocks[i+1].second; erase(begin() + i + 1)
MergeAt(s, i) ==
    Erase([s EXCEPT ![i] = <<s[i][1], Wrap(s[i][2] + s[i + 1][2])>>], i + 1)

RECURSIVE Coalesce(_, _)
\* the merge loop of CXLAllocator::free, i counted from 1
Coalesce(s, i) ==
    IF i >= Len(s) THEN s
    ELSE IF Wrap(s[i][1] + s[i][2]) = s[i + 1][1]
         THEN Coalesce(MergeAt(s, i), i)
         ELSE Coalesce(s, i + 1)

RECURSIVE SumSizes(_)
SumSizes(s) == IF s = <<>> THEN 0 ELSE Wrap(s[1][2] + SumSizes(Tail(s)))

----------------------------------------------------------------------------
(* CXLMemoryManager *)

get_region_size == region_size

get_direct_pointer(offset) ==
    IF ~initialized \/ offset >= region_size
    THEN NULL
    ELSE Wrap(mapped_region + offset)

----------------------------------------------------------------------------
(* CXLAllocator *)

\* a scan that grants at the block's own offset, never aligning it
AlignedOffsetNone(block_offset, alignment) == block_offset

\* size_t aligned_offset = (block_offset + alignment - 1) & ~(alignment - 1)
AlignedOffset(block_offset, alignment) == AlignUp(block_offset, alignment)

\* a fit test that forgets the alignment waste
FitsNoWaste(block, size, alignment) == Size(block) >= size

\* the test of the first-fit scan on one free block
Fits(block, size, alignment) ==
    LET aligned_offset == AlignedOffset(Offset(block), alignment)
        alignment_waste == Wrap(aligned_offset - Offset(block))
    IN Size(block) >= Wrap(size + alignment_waste)

\* a carve whose remainder forgets the alignment waste in its length
CarveLongRemainder(fb, i, size, alignment) ==
    LET block_offset == Offset(fb[i])
        block_size == Size(fb[i])
        aligned_offset == AlignedOffset(block_offset, alignment)
        alignment_waste == Wrap(aligned_offset - block_offset)
        erased == Erase(fb, i)
        front == IF alignment_waste > 0
                 THEN Append(erased, <<block_offset, alignment_waste>>)
                 ELSE erased
    IN IF block_size > Wrap(size + alignment_waste)
       THEN Append(front, <<Wrap(aligned_offset + size),
                            Wrap(block_size - size)>>)
       ELSE front

\* a carve that leaves the granting block in the free list
CarveKeepBlock(fb, i, size, alignment) ==
    LET block_offset == Offset(fb[i])
        block_size == Size(fb[i])
        aligned_offset == AlignedOffset(block_offset, alignment)
        alignment_waste == Wrap(aligned_offset - block_offset)
        front == IF alignment_waste > 0
                 THEN Append(fb, <<block_offset, alignment_waste>>)
                 ELSE fb
    IN IF block_size > Wrap(size + alignment_waste)
       THEN Append(front, <<Wrap(aligned_offset + size),
                            Wrap(block_size - size - alignment_waste)>>)
       ELSE front

\* the free list after the block at index i was carved
Carve(fb, i, size, alignment) ==
    LET block_offset == Offset(fb[i])
        block_size == Size(fb[i])
        aligned_offset == AlignedOffset(block_offset, alignment)
        alignment_waste == Wrap(aligned_offset - block_offset)
        erased == Erase(fb, i)
        front == IF alignment_waste > 0
                 THEN Append(erased, <<block_offset, alignment_waste>>)
                 ELSE erased
    IN IF block_size > Wrap(size + alignment_waste)
       THEN Append(front, <<Wrap(aligned_offset + size),
                            Wrap(block_size - size - alignment_waste)>>)
       ELSE front

\* an allocate that grants from the last fitting entry of the list
allocate_last_fit(fb, ab, req_size, alignment) ==
    LET size == AlignUp(req_size, alignment)
        hits == {i \in 1 .. Len(fb) : Fits(fb[i], size, alignment)}
    IN IF hits = {}
       THEN [found |-> FALSE, free |-> fb, alloc |-> ab, ret |-> NULL,
             grant |-> <<0, 0>>]
       ELSE LET i == CHOOSE k \in hits : \A j \in hits : k >= j
                aligned_offset == AlignedOffset(Offset(fb[i]), alignment)
            IN [found |-> TRUE,
                free |-> Carve(fb, i, size, alignment),
                alloc |-> Append(ab, <<aligned_offset, size>>),
                ret |-> get_direct_pointer(aligned_offset),
                grant |-> <<aligned_offset, size>>]

\* CXLAllocator::allocate as a function of the lists and the arguments
allocate(fb, ab, req_size, alignment) ==
    LET size == AlignUp(req_size, alignment)
        hits == {i \in 1 .. Len(fb) : Fits(fb[i], size, alignment)}
    IN IF hits = {}
       THEN [found |-> FALSE, free |-> fb, alloc |-> ab, ret |-> NULL,
             grant |-> <<0, 0>>]
       ELSE LET i == CHOOSE k \in hits : \A j \in hits : k <= j
                aligned_offset == AlignedOffset(Offset(fb[i]), alignment)
            IN [found |-> TRUE,
                free |-> Carve(fb, i, size, alignment),
                alloc |-> Append(ab, <<aligned_offset, size>>),
                ret |-> get_direct_pointer(aligned_offset),
                grant |-> <<aligned_offset, size>>]

\* a lookup that takes any allocation containing the offset
IsAllocationAround(block, offset) ==
    Offset(block) <= offset /\ offset < Offset(block) + Size(block)

\* if (it->first == offset)
IsAllocationAt(block, offset) == Offset(block) = offset

\* CXLAllocator::free as a function of the lists and the pointer
free(fb, ab, ptr) ==
    LET base_ptr == get_direct_pointer(0)
        offset == Wrap(ptr - base_ptr)
        hits == {i \in 1 .. Len(ab) : IsAllocationAt(ab[i], offset)}
    IN IF hits = {}
       THEN [ret |-> FALSE, free |-> fb, alloc |-> ab]
       ELSE LET i == CHOOSE k \in hits : \A j \in hits : k <= j
                size == Size(ab[i])
            IN [ret |-> TRUE,
                alloc |-> Erase(ab, i),
                free |-> Coalesce(SortBlocks(Append(fb, <<offset, size>>)), 1)]

\* CXLAllocator::get_stats
get_stats ==
    [total |-> get_region_size,
     used |-> SumSizes(allocated_blocks),
     free |-> SumSizes(free_blocks)]

----------------------------------------------------------------------------
(* Inputs *)

Sizes == {0, 1, 4, RegionSize, RegionSize + 1, WordMod - 1}
Alignments == {0, 1, 2, 3, 4, WordMod \div 2}
DeepSizes == {0, 1, 4}
DeepAlignments == {1, 4}
Pointers == {NULL} \cup {Wrap(MapBase + o) : o \in 0 .. RegionSize}

NoCall ==
    [op |-> "none", size |-> 0, alignment |-> 0, ptr |-> NULL, ret |-> 0,
     ok |-> FALSE, grant |-> <<0, 0>>, stats |-> <<0, 0, 0>>]

\* struct cxl_mem_command after memset(&cmd, 0, sizeof(cmd))
NoCommand == [id |-> 0, opcode |-> 0, address |-> 0, data |-> 0]

\* the callers that share one allocator instance
Threads == {"t1", "t2"}

\* std::mutex not held by any caller
Unlocked == "unlocked"

\* the locals of a caller that is in no call
NoFrame ==
    [op |-> "none", request |-> 0, size |-> 0, alignment |-> 0, ptr |-> NULL,
     entry_free |-> <<>>, entry_allocated |-> <<>>,
     found |-> FALSE, block_offset |-> 0, block_size |-> 0,
     aligned_offset |-> 0, alignment_waste |-> 0, offset |-> 0,
     total |-> 0, used |-> 0, free |-> 0]

----------------------------------------------------------------------------
(* The state after main has initialized the manager and constructed the   *)
(* allocator over it                                                      *)

Init ==
    /\ fd = DeviceFd
    /\ mapped_region = MapBase
    /\ region_size = RegionSize
    /\ initialized = TRUE
    /\ free_blocks = << <<0, RegionSize>> >>
    /\ allocated_blocks = <<>>
    /\ last = NoCall
    /\ calls = 0
    /\ allocation_mutex = Unlocked
    /\ pc = [t \in Threads |-> "idle"]
    /\ frame = [t \in Threads |-> NoFrame]
    /\ mem = [d \in 0 .. (RegionSize - 1) |-> 0]
    /\ open_fds = {DeviceFd}
    /\ mappings = {MapBase}
    /\ phase = "acquired"
    /\ device_fd = -1
    /\ cmd = NoCommand
    /\ cmd_list = <<>>
    /\ delivered = {}
    /\ dev_mutex = Unlocked
    /\ cmd_lock = Unlocked
    /\ freed = <<>>

\* one more call is made, in a run of at most max calls
Call(max) == calls < max /\ calls' = calls + 1

\* a call allocator.allocate(size, alignment)
AllocateCall(size, alignment) ==
    /\ LET r == allocate(free_blocks, allocated_blocks, size, alignment)
       IN /\ free_blocks' = r.free
          /\ allocated_blocks' = r.alloc
          /\ last' = [NoCall EXCEPT !.op = "allocate", !.size = size,
                                    !.alignment = alignment, !.ret = r.ret,
                                    !.ok = (r.ret # NULL), !.grant = r.grant]
    /\ UNCHANGED <<region_vars, thread_vars, device_vars, channel_vars>>

\* a call allocator.free(ptr)
FreeCall(ptr) ==
    /\ LET r == free(free_blocks, allocated_blocks, ptr)
       IN /\ free_blocks' = r.free
          /\ allocated_blocks' = r.alloc
          /\ last' = [NoCall EXCEPT !.op = "free", !.ptr = ptr, !.ok = r.ret]
    /\ UNCHANGED <<region_vars, thread_vars, device_vars, channel_vars>>

\* a call allocator.get_stats(total, used, free)
GetStatsCall ==
    /\ last' = [NoCall EXCEPT !.op = "get_stats", !.ok = TRUE,
                              !.stats = <<get_stats.total, get_stats.used,
                                          get_stats.free>>]
    /\ UNCHANGED <<region_vars, thread_vars, device_vars, channel_vars,
                   allocator_vars>>

Allocate ==
    \E size \in Sizes, alignment \in Alignments :
        /\ Call(MaxCalls)
        /\ Len(allocated_blocks) < MaxBlocks
        /\ AllocateCall(size, alignment)

Free == \E ptr \in Pointers : Call(MaxCalls) /\ FreeCall(ptr)

GetStats == Call(MaxCalls) /\ GetStatsCall

Next == Allocate \/ Free \/ GetStats

Spec == Init /\ [][Next]_vars

----------------------------------------------------------------------------
(* Longer runs of small requests: the same calls, from the same initial    *)
(* state, with the sizes and alignments of DeepSizes and DeepAlignments    *)

DeepAllocate ==
    \E size \in DeepSizes, alignment \in DeepAlignments :
        /\ Call(MaxDeepCalls)
        /\ Len(allocated_blocks) < MaxBlocks
        /\ AllocateCall(size, alignment)

DeepFree == \E ptr \in Pointers : Call(MaxDeepCalls) /\ FreeCall(ptr)

DeepGetStats == Call(MaxDeepCalls) /\ GetStatsCall

NextDeep == DeepAllocate \/ DeepFree \/ DeepGetStats

SpecDeep == Init /\ [][NextDeep]_vars

----------------------------------------------------------------------------
(* Concurrent callers of one allocator: each call is a sequence of steps,  *)
(* one per list access, bracketed by the lock_guard on allocation_mutex.   *)
(* frame[t].entry_free / entry_allocated record the lists as they were     *)
(* when caller t took the lock.                                            *)

\* a lock_guard that does not wait for the owner to leave
lock_guard_nowait(t) == allocation_mutex' = t

\* std::lock_guard<std::mutex> lock(allocation_mutex): blocks while owned
lock_guard(t) == allocation_mutex = Unlocked /\ allocation_mutex' = t

\* the lock_guard goes out of scope
unlock == allocation_mutex' = Unlocked

\* caller t moves to statement label with locals f
Goto(t, label, f) ==
    /\ pc' = [pc EXCEPT ![t] = label]
    /\ frame' = [frame EXCEPT ![t] = f]

\* caller t enters a call with locals f, at statement label
Enter(t, label, f) ==
    /\ pc[t] = "idle"
    /\ Call(MaxConcCalls)
    /\ lock_guard(t)
    /\ Goto(t, label, [f EXCEPT !.entry_free = free_blocks,
                                !.entry_allocated = allocated_blocks])
    /\ UNCHANGED <<region_vars, device_vars, channel_vars, free_blocks, allocated_blocks, last>>

\* caller t returns: the lock is dropped and the call's result is recorded,
\* with the caller that made it
Return(t, label, result) ==
    /\ pc[t] = label
    /\ unlock
    /\ Goto(t, "idle", NoFrame)
    /\ last' = [caller |-> t] @@ result
    /\ UNCHANGED <<region_vars, device_vars, channel_vars, free_blocks, allocated_blocks, calls>>

AllocateEnter(t) ==
    \E size \in DeepSizes, alignment \in DeepAlignments :
        /\ Len(allocated_blocks) < MaxBlocks
        /\ Enter(t, "allocate_scan",
                 [NoFrame EXCEPT !.op = "allocate", !.request = size,
                                 !.size = size, !.alignment = alignment])

\* size rounding, first-fit scan and free_blocks.erase(it)
AllocateScan(t) ==
    /\ pc[t] = "allocate_scan"
    /\ LET f == frame[t]
           size == AlignUp(f.size, f.alignment)
           hits == {i \in 1 .. Len(free_blocks) :
                        Fits(free_blocks[i], size, f.alignment)}
       IN IF hits = {}
          THEN /\ Goto(t, "allocate_return", [f EXCEPT !.size = size])
               /\ UNCHANGED free_blocks
          ELSE LET i == CHOOSE k \in hits : \A j \in hits : k <= j
                   block_offset == Offset(free_blocks[i])
                   aligned_offset == AlignedOffset(block_offset, f.alignment)
               IN /\ free_blocks' = Erase(free_blocks, i)
                  /\ Goto(t, "allocate_waste",
                          [f EXCEPT !.size = size, !.found = TRUE,
                                    !.block_offset = block_offset,
                                    !.block_size = Size(free_blocks[i]),
                                    !.aligned_offset = aligned_offset,
                                    !.alignment_waste =
                                        Wrap(aligned_offset - block_offset)])
    /\ UNCHANGED <<region_vars, device_vars, channel_vars, allocated_blocks, last, calls, allocation_mutex>>

\* if (alignment_waste > 0) free_blocks.push_back(...)
AllocateWaste(t) ==
    /\ pc[t] = "allocate_waste"
    /\ LET f == frame[t]
       IN /\ free_blocks' =
                 IF f.alignment_waste > 0
                 THEN Append(free_blocks, <<f.block_offset, f.alignment_waste>>)
                 ELSE free_blocks
          /\ Goto(t, "allocate_remainder", f)
    /\ UNCHANGED <<region_vars, device_vars, channel_vars, allocated_blocks, last, calls, allocation_mutex>>

\* if (block_size > size + alignment_waste) free_blocks.push_back(...)
AllocateRemainder(t) ==
    /\ pc[t] = "allocate_remainder"
    /\ LET f == frame[t]
       IN /\ free_blocks' =
                 IF f.block_size > Wrap(f.size + f.alignment_waste)
                 THEN Append(free_blocks,
                             <<Wrap(f.aligned_offset + f.size),
                               Wrap(f.block_size - f.size - f.alignment_waste)>>)
                 ELSE free_blocks
          /\ Goto(t, "allocate_grant", f)
    /\ UNCHANGED <<region_vars, device_vars, channel_vars, allocated_blocks, last, calls, allocation_mutex>>

\* allocated_blocks.push_back(std::make_pair(aligned_offset, size))
AllocateGrant(t) ==
    /\ pc[t] = "allocate_grant"
    /\ LET f == frame[t]
       IN /\ allocated_blocks' =
                 Append(allocated_blocks, <<f.aligned_offset, f.size>>)
          /\ Goto(t, "allocate_return", f)
    /\ UNCHANGED <<region_vars, device_vars, channel_vars, free_blocks, last, calls, allocation_mutex>>

\* return get_direct_pointer(aligned_offset), or nullptr after the loop
AllocateReturn(t) ==
    LET f == frame[t]
        ret == IF f.found THEN get_direct_pointer(f.aligned_offset) ELSE NULL
    IN Return(t, "allocate_return",
              [NoCall EXCEPT !.op = "allocate", !.size = f.request,
                             !.alignment = f.alignment, !.ret = ret,
                             !.ok = (ret # NULL),
                             !.grant = IF f.found
                                       THEN <<f.aligned_offset, f.size>>
                                       ELSE <<0, 0>>])

FreeEnter(t) ==
    \E ptr \in Pointers :
        Enter(t, "free_find", [NoFrame EXCEPT !.op = "free", !.ptr = ptr])

\* offset computation, lookup and allocated_blocks.erase(it)
FreeFind(t) ==
    /\ pc[t] = "free_find"
    /\ LET f == frame[t]
           offset == Wrap(f.ptr - get_direct_pointer(0))
           hits == {i \in 1 .. Len(allocated_blocks) :
                        IsAllocationAt(allocated_blocks[i], offset)}
       IN IF hits = {}
          THEN /\ Goto(t, "free_return", [f EXCEPT !.offset = offset])
               /\ UNCHANGED allocated_blocks
          ELSE LET i == CHOOSE k \in hits : \A j \in hits : k <= j
               IN /\ allocated_blocks' = Erase(allocated_blocks, i)
                  /\ Goto(t, "free_push",
                          [f EXCEPT !.offset = offset, !.found = TRUE,
                                    !.size = Size(allocated_blocks[i])])
    /\ UNCHANGED <<region_vars, device_vars, channel_vars, free_blocks, last, calls, allocation_mutex>>

\* free_blocks.push_back(std::make_pair(offset, size))
FreePush(t) ==
    /\ pc[t] = "free_push"
    /\ free_blocks' = Append(free_blocks, <<frame[t].offset, frame[t].size>>)
    /\ Goto(t, "free_sort", frame[t])
    /\ UNCHANGED <<region_vars, device_vars, channel_vars, allocated_blocks, last, calls, allocation_mutex>>

\* std::sort(free_blocks.begin(), free_blocks.end())
FreeSort(t) ==
    /\ pc[t] = "free_sort"
    /\ free_blocks' = SortBlocks(free_blocks)
    /\ Goto(t, "free_merge", frame[t])
    /\ UNCHANGED <<region_vars, device_vars, channel_vars, allocated_blocks, last, calls, allocation_mutex>>

\* the merge loop over neighbours
FreeMerge(t) ==
    /\ pc[t] = "free_merge"
    /\ free_blocks' = Coalesce(free_blocks, 1)
    /\ Goto(t, "free_return", frame[t])
    /\ UNCHANGED <<region_vars, device_vars, channel_vars, allocated_blocks, last, calls, allocation_mutex>>

FreeReturn(t) ==
    Return(t, "free_return",
           [NoCall EXCEPT !.op = "free", !.ptr = frame[t].ptr,
                          !.ok = frame[t].found])

GetStatsEnter(t) ==
    Enter(t, "get_stats_used", [NoFrame EXCEPT !.op = "get_stats"])

\* total = get_region_size(); used = sum over allocated_blocks
GetStatsUsed(t) ==
    /\ pc[t] = "get_stats_used"
    /\ Goto(t, "get_stats_free",
            [frame[t] EXCEPT !.total = get_region_size,
                             !.used = SumSizes(allocated_blocks)])
    /\ UNCHANGED <<region_vars, device_vars, channel_vars, free_blocks, allocated_blocks, last, calls,
                   allocation_mutex>>

\* free = sum over free_blocks
GetStatsFree(t) ==
    /\ pc[t] = "get_stats_free"
    /\ Goto(t, "get_stats_return",
            [frame[t] EXCEPT !.free = SumSizes(free_blocks)])
    /\ UNCHANGED <<region_vars, device_vars, channel_vars, free_blocks, allocated_blocks, last, calls,
                   allocation_mutex>>

GetStatsReturn(t) ==
    Return(t, "get_stats_return",
           [NoCall EXCEPT !.op = "get_stats", !.ok = TRUE,
                          !.stats = <<frame[t].total, frame[t].used,
                                      frame[t].free>>])

ConcAllocate ==
    \E t \in Threads :
        \/ AllocateEnter(t)
        \/ AllocateScan(t)
        \/ AllocateWaste(t)
        \/ AllocateRemainder(t)
        \/ AllocateGrant(t)
        \/ AllocateReturn(t)

ConcFree ==
    \E t \in Threads :
        \/ FreeEnter(t)
        \/ FreeFind(t)
        \/ FreePush(t)
        \/ FreeSort(t)
        \/ FreeMerge(t)
        \/ FreeReturn(t)

ConcGetStats ==
    \E t \in Threads :
        \/ GetStatsEnter(t)
        \/ GetStatsUsed(t)
        \/ GetStatsFree(t)
        \/ GetStatsReturn(t)

NextConc == ConcAllocate \/ ConcFree \/ ConcGetStats

SpecConc == Init /\ [][NextConc]_vars

----------------------------------------------------------------------------
(* The manager over the operating system: open / mmap / munmap / close of  *)
(* the device, and memcpy into and out of the mapping.  Every mapping of   *)
(* the device is MAP_SHARED at device offset 0, so all live mappings show  *)
(* the same bytes (mem).                                                   *)

\* MAP_FAILED, (void *) -1
MAP_FAILED == WordMod - 1

\* the addresses at which mmap can place a mapping
MapBases == {RegionSize, MapBase}

\* the size main passes to initialize (CXL_MEM_REGION_SIZE)
InitSizes == {RegionSize}

\* the descriptor open returns: the lowest one not in use
NextFd == CHOOSE n \in DeviceFd .. (DeviceFd + Cardinality(open_fds)) :
              /\ n \notin open_fds
              /\ \A k \in DeviceFd .. (n - 1) : k \in open_fds

\* address a lies in a live mapping
Mapped(a) == \E b \in mappings : b <= a /\ a < b + RegionSize

\* the device offset behind a mapped address
DeviceOffset(a) ==
    a - (CHOOSE b \in mappings : b <= a /\ a < b + RegionSize)

\* the addresses of length bytes from start, in pointer arithmetic
Span(start, length) == {Wrap(start + k) : k \in 0 .. (length - 1)}

\* a caller's buffer of n bytes
Buffer(seed, n) == [i \in 1 .. n |-> 1 + ((seed + i) % 2)]

\* a copy into the region that starts one byte late in the source
memcpy_in_shifted(dest, data, length) ==
    [d \in DOMAIN mem |->
        LET ks == {k \in 0 .. (length - 1) :
                       /\ Mapped(Wrap(dest + k))
                       /\ DeviceOffset(Wrap(dest + k)) = d}
        IN IF ks = {} THEN mem[d]
           ELSE data[1 + ((1 + CHOOSE k \in ks : \A j \in ks : j <= k) % length)]]

\* memcpy(dest, data, length): the device bytes afterwards; bytes that
\* fall outside every live mapping do not reach the device
memcpy_in(dest, data, length) ==
    [d \in DOMAIN mem |->
        LET ks == {k \in 0 .. (length - 1) :
                       /\ Mapped(Wrap(dest + k))
                       /\ DeviceOffset(Wrap(dest + k)) = d}
        IN IF ks = {} THEN mem[d]
           ELSE data[1 + CHOOSE k \in ks : \A j \in ks : j <= k]]

\* memcpy(buffer, src, length): the buffer afterwards; a byte read from
\* outside every live mapping has the value garbage
memcpy_out(src, length, garbage) ==
    [i \in 1 .. length |->
        LET a == Wrap(src + i - 1)
        IN IF Mapped(a) THEN mem[DeviceOffset(a)] ELSE garbage]

\* CXLMemoryManager::write_data
write_data(offset, data, length) ==
    IF ~initialized
    THEN [ok |-> FALSE, touched |-> {}, mem |-> mem]
    ELSE IF Wrap(offset + length) > region_size
    THEN [ok |-> FALSE, touched |-> {}, mem |-> mem]
    ELSE LET dest == Wrap(mapped_region + offset)
         IN [ok |-> TRUE, touched |-> Span(dest, length),
             mem |-> memcpy_in(dest, data, length)]

\* CXLMemoryManager::read_data
read_data(offset, length, garbage) ==
    IF ~initialized
    THEN [ok |-> FALSE, touched |-> {}, out |-> <<>>]
    ELSE IF Wrap(offset + length) > region_size
    THEN [ok |-> FALSE, touched |-> {}, out |-> <<>>]
    ELSE LET src == Wrap(mapped_region + offset)
         IN [ok |-> TRUE, touched |-> Span(src, length),
             out |-> memcpy_out(src, length, garbage)]

\* the manager and the resources of the process, as one record
Manager ==
    [fd |-> fd, mapped_region |-> mapped_region, region_size |-> region_size,
     initialized |-> initialized, open_fds |-> open_fds,
     mappings |-> mappings, munmaps |-> <<>>, closes |-> <<>>,
     stale |-> FALSE]

\* a cleanup that tests neither initialized nor resets fd
cleanup_unguarded(m) ==
    LET unmap == m.mapped_region # NULL /\ m.mapped_region # MAP_FAILED
        m1 == IF unmap
              THEN [m EXCEPT !.munmaps = Append(@, m.mapped_region),
                             !.stale = @ \/ m.mapped_region \notin m.mappings,
                             !.mappings = @ \ {m.mapped_region},
                             !.mapped_region = NULL]
              ELSE m
        m2 == IF m1.fd >= 0
              THEN [m1 EXCEPT !.closes = Append(@, m1.fd),
                              !.stale = @ \/ m1.fd \notin m1.open_fds,
                              !.open_fds = @ \ {m1.fd}]
              ELSE m1
    IN [m2 EXCEPT !.initialized = FALSE]

\* CXLMemoryManager::cleanup on manager m: munmaps and closes list the
\* system calls made, stale tells whether one of them named a mapping or a
\* descriptor that was not live
cleanup(m) ==
    IF ~m.initialized
    THEN m
    ELSE LET unmap == m.mapped_region # NULL /\ m.mapped_region # MAP_FAILED
             m1 == IF unmap
                   THEN [m EXCEPT !.munmaps = Append(@, m.mapped_region),
                                  !.stale = @ \/ m.mapped_region \notin m.mappings,
                                  !.mappings = @ \ {m.mapped_region},
                                  !.mapped_region = NULL]
                   ELSE m
             m2 == IF m1.fd >= 0
                   THEN [m1 EXCEPT !.closes = Append(@, m1.fd),
                                   !.stale = @ \/ m1.fd \notin m1.open_fds,
                                   !.open_fds = @ \ {m1.fd},
                                   !.fd = -1]
                   ELSE m1
         IN [m2 EXCEPT !.initialized = FALSE]

\* the arguments callers pass to write_data / read_data / get_direct_pointer
Offsets == {0, 3, RegionSize, WordMod - 4}
Lengths == {0, 1, RegionSize - 3, RegionSize}
Seeds == {0, 1}
ByteValues == {0, 1, 2}

\* no write is being followed
NoPending == [valid |-> FALSE, offset |-> 0, length |-> 0, data |-> <<>>]

NoRegionCall ==
    [op |-> "none", offset |-> 0, length |-> 0, data |-> <<>>, out |-> <<>>,
     ok |-> FALSE, ret |-> NULL, touched |-> {}, before |-> <<>>,
     ready |-> FALSE, was_initialized |-> FALSE, munmaps |-> <<>>,
     closes |-> <<>>, stale |-> FALSE, pending |-> NoPending]

\* the manager in main before any allocator exists: either as its
\* constructor leaves it, or as main's first initialize leaves it when open
\* and mmap succeed
InitRegion ==
    /\ free_blocks = <<>>
    /\ allocated_blocks = <<>>
    /\ calls = 0
    /\ allocation_mutex = Unlocked
    /\ pc = [t \in Threads |-> "idle"]
    /\ frame = [t \in Threads |-> NoFrame]
    /\ mem = [d \in 0 .. (RegionSize - 1) |-> 0]
    /\ device_fd = -1
    /\ cmd = NoCommand
    /\ cmd_list = <<>>
    /\ delivered = {}
    /\ dev_mutex = Unlocked
    /\ cmd_lock = Unlocked
    /\ freed = <<>>
    /\ \/ /\ fd = -1
          /\ mapped_region = NULL
          /\ region_size = 0
          /\ initialized = FALSE
          /\ open_fds = {}
          /\ mappings = {}
          /\ phase = "created"
          /\ last = NoRegionCall
       \/ /\ fd = DeviceFd
          /\ mapped_region = MapBase
          /\ region_size = RegionSize
          /\ initialized = TRUE
          /\ open_fds = {DeviceFd}
          /\ mappings = {MapBase}
          /\ phase = "acquired"
          /\ last = [NoRegionCall EXCEPT !.op = "initialize", !.ok = TRUE,
                                         !.ready = TRUE]

\* one more call on a manager that exists, in a process that runs
RegionCall ==
    /\ Call(MaxRegionCalls)
    /\ last.op \notin {"fault", "destroy", "cxl_cleanup"}
    /\ UNCHANGED <<allocator_vars, thread_vars, channel_vars>>

\* the process is killed by the access of an address outside every mapping
Fault ==
    /\ last' = [NoRegionCall EXCEPT !.op = "fault"]
    /\ UNCHANGED <<region_vars, device_vars>>

\* CXLMemoryManager::initialize(device_path, size); open and mmap each
\* succeed or fail as the system decides
Initialize ==
    \E size \in InitSizes, opened \in BOOLEAN,
       addr \in {MAP_FAILED} \cup (MapBases \ mappings) :
        /\ RegionCall
        /\ UNCHANGED mem
        /\ IF ~opened
           THEN /\ fd' = -1
                /\ phase' = "failed"
                /\ last' = [NoRegionCall EXCEPT !.op = "initialize"]
                /\ UNCHANGED <<mapped_region, region_size, initialized,
                               open_fds, mappings>>
           ELSE IF addr = MAP_FAILED
           THEN /\ fd' = -1
                /\ mapped_region' = MAP_FAILED
                /\ phase' = "failed"
                /\ last' = [NoRegionCall EXCEPT !.op = "initialize"]
                /\ UNCHANGED <<region_size, initialized, open_fds, mappings>>
           ELSE /\ fd' = NextFd
                /\ open_fds' = open_fds \cup {NextFd}
                /\ mapped_region' = addr
                /\ mappings' = mappings \cup {addr}
                /\ region_size' = size
                /\ initialized' = TRUE
                /\ phase' = "acquired"
                /\ last' = [NoRegionCall EXCEPT !.op = "initialize",
                                                !.ok = TRUE, !.ready = TRUE]

\* the manager and the process resources become those of record m
Become(m) ==
    /\ fd' = m.fd
    /\ mapped_region' = m.mapped_region
    /\ region_size' = m.region_size
    /\ initialized' = m.initialized
    /\ open_fds' = m.open_fds
    /\ mappings' = m.mappings
    /\ UNCHANGED mem

\* what a call that ran cleanup leaves in the call record
Released(op, m) ==
    [NoRegionCall EXCEPT !.op = op, !.ok = TRUE,
                         !.ready = (phase = "acquired"),
                         !.was_initialized = initialized,
                         !.munmaps = m.munmaps, !.closes = m.closes,
                         !.stale = m.stale]

\* manager.cleanup()
Cleanup ==
    /\ RegionCall
    /\ Become(cleanup(Manager))
    /\ phase' = "released"
    /\ last' = Released("cleanup", cleanup(Manager))

\* ~CXLMemoryManager(): cleanup, and the manager is gone
Destructor ==
    /\ RegionCall
    /\ Become(cleanup(Manager))
    /\ phase' = "released"
    /\ last' = Released("destroy", cleanup(Manager))

\* cxl_cleanup(handle): manager->cleanup(); delete manager;
CxlCleanup ==
    /\ RegionCall
    /\ Become(cleanup(cleanup(Manager)))
    /\ phase' = "released"
    /\ last' = Released("cxl_cleanup", cleanup(cleanup(Manager)))

\* the earliest write to the ready region, inside its bounds, none of whose
\* bytes a later write has touched: kept in the call record (pending) until
\* a write touches the device offsets ds that meet it
Keep(ds) ==
    IF /\ last.pending.valid
       /\ ds \cap (last.pending.offset ..
                   (last.pending.offset + last.pending.length - 1)) = {}
    THEN last.pending
    ELSE NoPending

\* the device offsets behind the mapped addresses among as
DeviceOffsets(as) == {DeviceOffset(a) : a \in {x \in as : Mapped(x)}}

\* manager.write_data(offset, data, length)
WriteData ==
    \E offset \in Offsets, length \in Lengths, seed \in Seeds :
        LET data == Buffer(seed, length)
            r == write_data(offset, data, length)
            stray == {a \in r.touched : ~Mapped(a)} # {}
            inside == phase = "acquired" /\ offset + length <= region_size
        IN /\ RegionCall
           /\ \/ /\ stray
                 /\ Fault
              \/ /\ mem' = r.mem
                 /\ last' = [NoRegionCall EXCEPT
                                !.op = "write_data", !.offset = offset,
                                !.length = length, !.data = data,
                                !.ok = r.ok, !.touched = r.touched,
                                !.before = mem, !.ready = (phase = "acquired"),
                                !.pending =
                                    IF Keep(DeviceOffsets(r.touched)).valid
                                    THEN Keep(DeviceOffsets(r.touched))
                                    ELSE IF r.ok /\ inside
                                    THEN [valid |-> TRUE, offset |-> offset,
                                          length |-> length, data |-> data]
                                    ELSE NoPending]
                 /\ UNCHANGED <<region_vars, open_fds, mappings, phase>>

\* manager.read_data(offset, buffer, length)
ReadData ==
    \E offset \in Offsets, length \in Lengths, garbage \in ByteValues :
        LET r == read_data(offset, length, garbage)
            stray == {a \in r.touched : ~Mapped(a)} # {}
        IN /\ RegionCall
           /\ stray \/ garbage = 0
           /\ \/ /\ stray
                 /\ Fault
              \/ /\ last' = [NoRegionCall EXCEPT
                                !.op = "read_data", !.offset = offset,
                                !.length = length, !.out = r.out,
                                !.ok = r.ok, !.touched = r.touched,
                                !.ready = (phase = "acquired"),
                                !.pending = last.pending]
                 /\ UNCHANGED <<region_vars, device_vars>>

\* manager.get_direct_pointer(offset)
GetDirectPointer ==
    \E offset \in Offsets \cup {1} :
        /\ RegionCall
        /\ last' = [NoRegionCall EXCEPT
                       !.op = "get_direct_pointer", !.offset = offset,
                       !.ret = get_direct_pointer(offset),
                       !.ok = (get_direct_pointer(offset) # NULL),
                       !.ready = (phase = "acquired"),
                       !.pending = last.pending]
        /\ UNCHANGED <<region_vars, device_vars>>

NextRegion ==
    \/ Initialize
    \/ Cleanup
    \/ Destructor
    \/ CxlCleanup
    \/ WriteData
    \/ ReadData
    \/ GetDirectPointer

SpecRegion == InitRegion /\ [][NextRegion]_vars

----------------------------------------------------------------------------
(* The allocator over a manager that goes through its life: the allocator  *)
(* holds a reference to the manager, so it can be constructed before the   *)
(* manager is initialized, and it can be called after cleanup.             *)

\* the two objects exist: either the allocator was constructed over the
\* manager as its constructor left it, or, as in main, over the manager
\* already initialized
InitLife ==
    /\ allocated_blocks = <<>>
    /\ last = NoCall
    /\ calls = 0
    /\ allocation_mutex = Unlocked
    /\ pc = [t \in Threads |-> "idle"]
    /\ frame = [t \in Threads |-> NoFrame]
    /\ mem = [d \in 0 .. (RegionSize - 1) |-> 0]
    /\ device_fd = -1
    /\ cmd = NoCommand
    /\ cmd_list = <<>>
    /\ delivered = {}
    /\ dev_mutex = Unlocked
    /\ cmd_lock = Unlocked
    /\ freed = <<>>
    /\ \/ /\ fd = -1
          /\ mapped_region = NULL
          /\ region_size = 0
          /\ initialized = FALSE
          /\ open_fds = {}
          /\ mappings = {}
          /\ phase = "created"
       \/ /\ fd = DeviceFd
          /\ mapped_region = MapBase
          /\ region_size = RegionSize
          /\ initialized = TRUE
          /\ open_fds = {DeviceFd}
          /\ mappings = {MapBase}
          /\ phase = "acquired"
    /\ free_blocks = << <<0, get_region_size>> >>

LifeAllocate ==
    \E size \in DeepSizes, alignment \in DeepAlignments :
        /\ Call(MaxRegionCalls)
        /\ AllocateCall(size, alignment)

LifeFree == \E ptr \in Pointers : Call(MaxRegionCalls) /\ FreeCall(ptr)

LifeGetStats == Call(MaxRegionCalls) /\ GetStatsCall

NextLife ==
    \/ Initialize
    \/ Cleanup
    \/ LifeAllocate
    \/ LifeFree
    \/ LifeGetStats

SpecLife == InitLife /\ [][NextLife]_vars

----------------------------------------------------------------------------
(* Concurrent callers of one manager: write_data, read_data and cleanup    *)
(* take no lock, so each is a sequence of steps, one per access of a field *)
(* of the manager or of a byte of the mapping.  A copy of a byte at an     *)
(* address outside every live mapping kills the process.                   *)

\* the number of calls the callers make on the manager
MaxRaceCalls == 3

\* the arguments of the concurrent write_data / read_data calls
RaceOffsets == {0, 3}
RaceLengths == {1, 2}

\* the locals of a caller that is in no call on the manager
NoRaceFrame ==
    [op |-> "none", offset |-> 0, length |-> 0, data |-> <<>>, dest |-> NULL,
     copied |-> 0, out |-> <<>>]

\* no call on the manager has returned and no byte has been copied
NoRaceCall ==
    [op |-> "none", caller |-> "none", ok |-> FALSE, address |-> NULL,
     mapped |-> TRUE]

\* main has initialized the manager; its callers are in no call
InitRace ==
    /\ fd = DeviceFd
    /\ mapped_region = MapBase
    /\ region_size = RegionSize
    /\ initialized = TRUE
    /\ free_blocks = <<>>
    /\ allocated_blocks = <<>>
    /\ last = NoRaceCall
    /\ calls = 0
    /\ allocation_mutex = Unlocked
    /\ pc = [t \in Threads |-> "idle"]
    /\ frame = [t \in Threads |-> NoRaceFrame]
    /\ mem = [d \in 0 .. (RegionSize - 1) |-> 0]
    /\ open_fds = {DeviceFd}
    /\ mappings = {MapBase}
    /\ phase = "acquired"
    /\ device_fd = -1
    /\ cmd = NoCommand
    /\ cmd_list = <<>>
    /\ delivered = {}
    /\ dev_mutex = Unlocked
    /\ cmd_lock = Unlocked
    /\ freed = <<>>

\* caller t, at statement label of a call on the manager, takes a step, in
\* a process that no copy outside every live mapping has killed
RaceAt(t, label) ==
    /\ pc[t] = label
    /\ ~(last.op = "memcpy" /\ ~last.mapped)
    /\ UNCHANGED <<allocator_vars, allocation_mutex, channel_vars, phase>>

\* caller t returns result from its call on the manager
RaceReturn(t, result) ==
    /\ Goto(t, "idle", NoRaceFrame)
    /\ last' = [NoRaceCall EXCEPT !.op = frame[t].op, !.caller = t,
                                  !.ok = result]

\* caller t calls write_data or read_data
AccessEnter(t) ==
    \E op \in {"write_data", "read_data"},
       offset \in RaceOffsets, length \in RaceLengths :
        /\ RaceAt(t, "idle")
        /\ Call(MaxRaceCalls)
        /\ Goto(t, "check", [NoRaceFrame EXCEPT !.op = op, !.offset = offset,
                                                !.length = length,
                                                !.data = Buffer(0, length)])
        /\ UNCHANGED <<region_vars, mem, open_fds, mappings, last>>

\* if (!initialized.load(std::memory_order_acquire)) return false;
AccessCheck(t) ==
    /\ RaceAt(t, "check")
    /\ IF ~initialized
       THEN RaceReturn(t, FALSE)
       ELSE Goto(t, "bounds", frame[t]) /\ UNCHANGED last
    /\ UNCHANGED <<region_vars, mem, open_fds, mappings, calls>>

\* if (offset + length > region_size) return false;
AccessBounds(t) ==
    /\ RaceAt(t, "bounds")
    /\ IF Wrap(frame[t].offset + frame[t].length) > region_size
       THEN RaceReturn(t, FALSE)
       ELSE Goto(t, "dest", frame[t]) /\ UNCHANGED last
    /\ UNCHANGED <<region_vars, mem, open_fds, mappings, calls>>

\* char* dest = static_cast<char*>(mapped_region) + offset;
AccessDest(t) ==
    /\ RaceAt(t, "dest")
    /\ Goto(t, "memcpy",
            [frame[t] EXCEPT !.dest = Wrap(mapped_region + frame[t].offset)])
    /\ UNCHANGED <<region_vars, mem, open_fds, mappings, calls, last>>

\* memcpy copies its next byte; outside every live mapping the access
\* kills the process
AccessCopy(t) ==
    LET f == frame[t]
        a == Wrap(f.dest + f.copied)
    IN /\ RaceAt(t, "memcpy")
       /\ f.copied < f.length
       /\ last' = [NoRaceCall EXCEPT !.op = "memcpy", !.caller = t,
                                     !.address = a, !.mapped = Mapped(a)]
       /\ IF ~Mapped(a)
          THEN UNCHANGED <<mem, pc, frame>>
          ELSE IF f.op = "write_data"
          THEN /\ mem' = [mem EXCEPT ![DeviceOffset(a)] = f.data[f.copied + 1]]
               /\ Goto(t, "memcpy", [f EXCEPT !.copied = @ + 1])
          ELSE /\ Goto(t, "memcpy",
                       [f EXCEPT !.copied = @ + 1,
                                 !.out = Append(@, mem[DeviceOffset(a)])])
               /\ UNCHANGED mem
       /\ UNCHANGED <<region_vars, open_fds, mappings, calls>>

\* return true;
AccessReturn(t) ==
    /\ RaceAt(t, "memcpy")
    /\ frame[t].copied = frame[t].length
    /\ RaceReturn(t, TRUE)
    /\ UNCHANGED <<region_vars, mem, open_fds, mappings, calls>>

\* caller t calls cleanup
CleanupEnter(t) ==
    /\ RaceAt(t, "idle")
    /\ Call(MaxRaceCalls)
    /\ Goto(t, "loaded", [NoRaceFrame EXCEPT !.op = "cleanup"])
    /\ UNCHANGED <<region_vars, mem, open_fds, mappings, last>>

\* if (initialized.load(std::memory_order_acquire)) {
CleanupCheck(t) ==
    /\ RaceAt(t, "loaded")
    /\ IF ~initialized
       THEN RaceReturn(t, TRUE)
       ELSE Goto(t, "munmap", frame[t]) /\ UNCHANGED last
    /\ UNCHANGED <<region_vars, mem, open_fds, mappings, calls>>

\* if (mapped_region && mapped_region != MAP_FAILED)
\*     munmap(mapped_region, region_size);
CleanupMunmap(t) ==
    /\ RaceAt(t, "munmap")
    /\ IF mapped_region # NULL /\ mapped_region # MAP_FAILED
       THEN /\ mappings' = mappings \ {mapped_region}
            /\ Goto(t, "nullptr", frame[t])
       ELSE /\ UNCHANGED mappings
            /\ Goto(t, "close", frame[t])
    /\ UNCHANGED <<region_vars, mem, open_fds, calls, last>>

\* mapped_region = nullptr;
CleanupNull(t) ==
    /\ RaceAt(t, "nullptr")
    /\ mapped_region' = NULL
    /\ Goto(t, "close", frame[t])
    /\ UNCHANGED <<fd, region_size, initialized, mem, open_fds, mappings,
                   calls, last>>

\* if (fd >= 0) { close(fd); fd = -1; }
CleanupClose(t) ==
    /\ RaceAt(t, "close")
    /\ IF fd >= 0
       THEN open_fds' = open_fds \ {fd} /\ fd' = -1
       ELSE UNCHANGED <<open_fds, fd>>
    /\ Goto(t, "store", frame[t])
    /\ UNCHANGED <<mapped_region, region_size, initialized, mem, mappings,
                   calls, last>>

\* initialized.store(false, std::memory_order_release);
CleanupStore(t) ==
    /\ RaceAt(t, "store")
    /\ initialized' = FALSE
    /\ RaceReturn(t, TRUE)
    /\ UNCHANGED <<fd, mapped_region, region_size, mem, open_fds, mappings,
                   calls>>

NextRace ==
    \E t \in Threads :
        \/ AccessEnter(t)
        \/ AccessCheck(t)
        \/ AccessBounds(t)
        \/ AccessDest(t)
        \/ AccessCopy(t)
        \/ AccessReturn(t)
        \/ CleanupEnter(t)
        \/ CleanupCheck(t)
        \/ CleanupMunmap(t)
        \/ CleanupNull(t)
        \/ CleanupClose(t)
        \/ CleanupStore(t)

SpecRace == InitRace /\ [][NextRace]_vars

----------------------------------------------------------------------------
(* The command channel: CXLDeviceDriver (cxl_system.cpp) over the ioctl    *)
(* interface of the kernel driver (cxl_fpga_driver.c).  An entry of        *)
(* cmd_list is a struct cxl_fpga_cmd; its field serial is not in the       *)
(* struct: it numbers the submissions, to tell apart commands that carry   *)
(* the same id.                                                            *)

CXL_CMD_STATUS_ACTIVE == 0
CXL_CMD_STATUS_COMPLETED == 1
CXL_CMD_STATUS_ERROR == 2
CXL_CMD_STATUS_INVALID == 3

\* the arguments callers pass to send_command
Opcodes == {1}
Addresses == {0}
Datas == {0}

\* the ids a program that calls ioctl itself puts in its commands and queries
CommandIds == {0, 1}

\* the results the device reports
Results == {7}

NoChannelCall ==
    [op |-> "none", id |-> 0, ok |-> FALSE, returned |-> TRUE,
     status |-> CXL_CMD_STATUS_INVALID, result |-> 0, serial |-> 0]

\* a submission that keeps only commands whose address lies in an allocated
\* extent
ioctl_send_command_owned(list, user_cmd, serial) ==
    IF \E i \in 1 .. Len(allocated_blocks) :
           /\ allocated_blocks[i][1] <= user_cmd.address
           /\ user_cmd.address < allocated_blocks[i][1] + allocated_blocks[i][2]
    THEN Append(list, [serial |-> serial, id |-> user_cmd.id,
                       opcode |-> user_cmd.opcode,
                       address |-> user_cmd.address, data |-> user_cmd.data,
                       status |-> CXL_CMD_STATUS_ACTIVE, result |-> 0])
    ELSE list

\* CXL_MEM_SEND_COMMAND after kzalloc: the list with the new command at its
\* tail
ioctl_send_command(list, user_cmd, serial) ==
    Append(list, [serial |-> serial, id |-> user_cmd.id,
                  opcode |-> user_cmd.opcode, address |-> user_cmd.address,
                  data |-> user_cmd.data, status |-> CXL_CMD_STATUS_ACTIVE,
                  result |-> 0])

\* a query that removes the command it finds whatever its status
ioctl_query_cmd_consuming(list, id) ==
    LET hits == {i \in 1 .. Len(list) : list[i].id = id}
    IN IF hits = {}
       THEN [status |-> CXL_CMD_STATUS_INVALID, result |-> 0, list |-> list,
             serial |-> 0]
       ELSE LET i == CHOOSE k \in hits : \A j \in hits : k <= j
                found == list[i]
            IN [status |-> found.status, result |-> found.result,
                list |-> Erase(list, i), serial |-> found.serial]

\* CXL_MEM_QUERY_CMD: the status and result written to the query, the list
\* afterwards, and the serial of the command that answered (0: none)
ioctl_query_cmd(list, id) ==
    LET hits == {i \in 1 .. Len(list) : list[i].id = id}
    IN IF hits = {}
       THEN [status |-> CXL_CMD_STATUS_INVALID, result |-> 0, list |-> list,
             serial |-> 0]
       ELSE LET i == CHOOSE k \in hits : \A j \in hits : k <= j
                found == list[i]
            IN [status |-> found.status, result |-> found.result,
                list |-> IF found.status # CXL_CMD_STATUS_ACTIVE
                         THEN Erase(list, i)
                         ELSE list,
                serial |-> found.serial]

\* the state after main has initialized the manager, constructed the
\* allocator and initialized the driver
InitChannel ==
    /\ fd = DeviceFd
    /\ mapped_region = MapBase
    /\ region_size = RegionSize
    /\ initialized = TRUE
    /\ free_blocks = << <<0, RegionSize>> >>
    /\ allocated_blocks = <<>>
    /\ last = NoChannelCall
    /\ calls = 0
    /\ allocation_mutex = Unlocked
    /\ pc = [t \in Threads |-> "idle"]
    /\ frame = [t \in Threads |-> NoFrame]
    /\ mem = [d \in 0 .. (RegionSize - 1) |-> 0]
    /\ open_fds = {DeviceFd, DeviceFd + 1}
    /\ mappings = {MapBase}
    /\ phase = "acquired"
    /\ device_fd = DeviceFd + 1
    /\ cmd = NoCommand
    /\ cmd_list = <<>>
    /\ delivered = {}
    /\ dev_mutex = Unlocked
    /\ cmd_lock = Unlocked
    /\ freed = <<>>

\* wait_for_response is in its polling loop
Waiting == last.op = "wait_for_response" /\ ~last.returned

\* one more call, by a program that is not inside wait_for_response
ChannelCall ==
    /\ Call(MaxChannelCalls)
    /\ ~Waiting
    /\ UNCHANGED <<region_vars, allocator_vars, thread_vars, mem, mappings,
                   phase, kernel_vars>>

\* what a query leaves: the list, and the commands delivered so far
Queried(r, id) ==
    /\ cmd_list' = r.list
    /\ delivered' =
           IF r.serial # 0 /\ r.status # CXL_CMD_STATUS_ACTIVE
           THEN delivered \cup {[serial |-> r.serial, id |-> id]}
           ELSE delivered

\* driver.initialize(device_path)
DriverInitialize ==
    \E opened \in BOOLEAN :
        /\ ChannelCall
        /\ device_fd' = IF opened THEN NextFd ELSE -1
        /\ open_fds' = IF opened THEN open_fds \cup {NextFd} ELSE open_fds
        /\ last' = [NoChannelCall EXCEPT !.op = "initialize", !.ok = opened]
        /\ UNCHANGED <<cmd, cmd_list, delivered>>

\* driver.send_command(opcode, address, data) with an address of the given
\* set; kzalloc succeeds or not
SendCommandTo(addresses) ==
    \E opcode \in Opcodes, address \in addresses, data \in Datas,
       nomem \in BOOLEAN :
        LET user_cmd == [id |-> 0, opcode |-> opcode, address |-> address,
                         data |-> data]
        IN /\ ChannelCall
           /\ UNCHANGED <<device_fd, open_fds, delivered>>
           /\ IF device_fd < 0
              THEN /\ last' = [NoChannelCall EXCEPT !.op = "send_command"]
                   /\ UNCHANGED <<cmd, cmd_list>>
              ELSE /\ cmd' = user_cmd
                   /\ cmd_list' = IF nomem
                                  THEN cmd_list
                                  ELSE ioctl_send_command(cmd_list, user_cmd,
                                                          calls + 1)
                   /\ last' = [NoChannelCall EXCEPT
                                  !.op = "send_command", !.ok = ~nomem,
                                  !.id = user_cmd.id,
                                  !.serial = IF nomem THEN 0 ELSE calls + 1]

SendCommand == SendCommandTo(Addresses)

\* ioctl(fd, CXL_MEM_SEND_COMMAND, &user_cmd) by a program of its own
IoctlSendCommand ==
    \E id \in CommandIds, opcode \in Opcodes :
        LET user_cmd == [id |-> id, opcode |-> opcode, address |-> 0,
                         data |-> 0]
        IN /\ ChannelCall
           /\ cmd_list' = ioctl_send_command(cmd_list, user_cmd, calls + 1)
           /\ last' = [NoChannelCall EXCEPT !.op = "ioctl_send", !.ok = TRUE,
                                            !.id = id, !.serial = calls + 1]
           /\ UNCHANGED <<device_fd, open_fds, cmd, delivered>>

\* ioctl(fd, CXL_MEM_QUERY_CMD, &query) with query.id = id
QueryCmd ==
    \E id \in CommandIds :
        LET r == ioctl_query_cmd(cmd_list, id)
        IN /\ ChannelCall
           /\ Queried(r, id)
           /\ last' = [NoChannelCall EXCEPT !.op = "query", !.ok = TRUE,
                                            !.id = id, !.status = r.status,
                                            !.result = r.result,
                                            !.serial = r.serial]
           /\ UNCHANGED <<device_fd, open_fds, cmd>>

\* driver.wait_for_response(status, result): one pass of the polling loop,
\* the first of a call or a later one
WaitForResponse ==
    LET r == ioctl_query_cmd(cmd_list, cmd.id)
    IN /\ \/ /\ Waiting
             /\ UNCHANGED <<calls, region_vars, allocator_vars, thread_vars,
                            mem, mappings, phase, kernel_vars>>
          \/ ChannelCall
       /\ UNCHANGED <<device_fd, open_fds, cmd>>
       /\ IF device_fd < 0
          THEN /\ last' = [NoChannelCall EXCEPT !.op = "wait_for_response"]
               /\ UNCHANGED <<cmd_list, delivered>>
          ELSE /\ Queried(r, cmd.id)
               /\ last' = [NoChannelCall EXCEPT
                              !.op = "wait_for_response", !.id = cmd.id,
                              !.returned = (r.status # CXL_CMD_STATUS_ACTIVE),
                              !.ok = (r.status = CXL_CMD_STATUS_COMPLETED),
                              !.status = r.status, !.result = r.result,
                              !.serial = r.serial]

\* the device finishes a command of the list: it stores a terminal status
\* and a result in it
Complete ==
    \E i \in 1 .. Len(cmd_list), result \in Results,
       status \in {CXL_CMD_STATUS_COMPLETED, CXL_CMD_STATUS_ERROR} :
        /\ cmd_list[i].status = CXL_CMD_STATUS_ACTIVE
        /\ cmd_list' = [cmd_list EXCEPT ![i].status = status,
                                        ![i].result = result]
        /\ UNCHANGED <<region_vars, allocator_vars, thread_vars, device_vars,
                       device_fd, cmd, delivered, last, calls, kernel_vars>>

NextChannel ==
    \/ DriverInitialize
    \/ SendCommand
    \/ IoctlSendCommand
    \/ QueryCmd
    \/ WaitForResponse
    \/ Complete

SpecChannel == InitChannel /\ [][NextChannel]_vars

\* a pass of the polling loop of a wait_for_response that has not returned
WaitLoop == Waiting /\ WaitForResponse

\* the thread inside wait_for_response keeps running: whenever a pass of
\* its loop would change anything it is eventually made.  Nothing obliges
\* the device to finish a command or the program to make another call.
SpecChannelLive == SpecChannel /\ WF_vars(WaitLoop)

\* the channel as the code of the driver leaves it: cxl_fpga_cmd_work is
\* empty and is never queued, so no step stores a status in a command
NextDriver ==
    \/ DriverInitialize
    \/ SendCommand
    \/ IoctlSendCommand
    \/ QueryCmd
    \/ WaitForResponse

\* the thread inside wait_for_response keeps running
SpecDriverLive == InitChannel /\ [][NextDriver]_vars /\ WF_vars(WaitLoop)

----------------------------------------------------------------------------
(* The allocator over a region of 1024 bytes, with requests of 100 and 200 *)
(* bytes at the default alignment of 64, as a caller of the class makes    *)
(* them; every offset and length is a byte count.                          *)

\* calls made on the allocator in one run over this region
MaxScenarioCalls == 3

ScenarioSizes == {64, 100, 200}
ScenarioAlignments == {1, 64}

\* the pointers a caller holds: those of the live extents, and NULL
LivePointers ==
    {NULL} \cup {get_direct_pointer(Offset(allocated_blocks[i])) :
                     i \in 1 .. Len(allocated_blocks)}

\* manager.initialize(path, 1024) and the allocator constructed over it
InitScenario ==
    /\ fd = DeviceFd
    /\ mapped_region = MapBase
    /\ region_size = 1024
    /\ initialized = TRUE
    /\ free_blocks = << <<0, 1024>> >>
    /\ allocated_blocks = <<>>
    /\ last = NoCall
    /\ calls = 0
    /\ allocation_mutex = Unlocked
    /\ pc = [t \in Threads |-> "idle"]
    /\ frame = [t \in Threads |-> NoFrame]
    /\ mem = [d \in 0 .. (RegionSize - 1) |-> 0]
    /\ open_fds = {DeviceFd}
    /\ mappings = {MapBase}
    /\ phase = "acquired"
    /\ device_fd = -1
    /\ cmd = NoCommand
    /\ cmd_list = <<>>
    /\ delivered = {}
    /\ dev_mutex = Unlocked
    /\ cmd_lock = Unlocked
    /\ freed = <<>>

ScenarioAllocate ==
    \E size \in ScenarioSizes, alignment \in ScenarioAlignments :
        /\ Call(MaxScenarioCalls)
        /\ AllocateCall(size, alignment)

ScenarioFree ==
    \E ptr \in LivePointers : Call(MaxScenarioCalls) /\ FreeCall(ptr)

ScenarioGetStats == Call(MaxScenarioCalls) /\ GetStatsCall

NextScenario == ScenarioAllocate \/ ScenarioFree \/ ScenarioGetStats

SpecScenario == InitScenario /\ [][NextScenario]_vars

----------------------------------------------------------------------------
(* The allocator and the command channel side by side, as main uses them:  *)
(* extents are allocated and freed while commands that name offsets of the *)
(* region are submitted and queried.                                       *)

\* the offsets callers put in their commands: the start and the inside of
\* extents, and an offset past the region
CommandAddresses == {0, 4, RegionSize + 1}

OwnerAllocate ==
    \E size \in DeepSizes \ {0}, alignment \in DeepAlignments :
        /\ Call(MaxChannelCalls)
        /\ ~Waiting
        /\ Len(allocated_blocks) < MaxBlocks
        /\ AllocateCall(size, alignment)

OwnerFree ==
    \E ptr \in Pointers :
        /\ Call(MaxChannelCalls)
        /\ ~Waiting
        /\ FreeCall(ptr)

OwnerSendCommand == SendCommandTo(CommandAddresses)

NextOwner ==
    \/ OwnerAllocate
    \/ OwnerFree
    \/ OwnerSendCommand
    \/ QueryCmd
    \/ WaitForResponse
    \/ Complete

SpecOwner == InitChannel /\ [][NextOwner]_vars

----------------------------------------------------------------------------
(* cxl_fpga_ioctl (cxl_fpga_driver.c) called by several threads at once,   *)
(* statement by statement.  pc and frame hold each thread's position and   *)
(* locals inside the ioctl.  The file under src/ ends inside the query     *)
(* case; the statements after it (spin_unlock, copy_to_user, mutex_unlock, *)
(* return) follow the specification's account of the channel.              *)

\* calls made on the device in one run, send_command of main included
MaxIoctlCalls == 4

\* a lock taken without waiting for its owner to drop it
kernel_lock_nowait(owner, owner_next, t) == owner_next = t

\* mutex_lock(&dev->dev_mutex) / spin_lock(&dev->cmd_lock): blocks while
\* the lock is owned
kernel_lock(owner, owner_next, t) == owner = Unlocked /\ owner_next = t

NoIoctlFrame ==
    [op |-> "none", id |-> 0, found |-> 0, ret |-> 0,
     status |-> CXL_CMD_STATUS_INVALID, result |-> 0, call |-> 0]

NoIoctlCall == [caller |-> "none"] @@ NoIoctlFrame

\* the position of the first command of the list with this serial (0: none)
EntryAt(list, serial) ==
    LET hits == {i \in 1 .. Len(list) : list[i].serial = serial}
    IN IF hits = {} THEN 0 ELSE CHOOSE k \in hits : \A j \in hits : k <= j

\* list_for_each_entry ... if (cmd->id == query.id): the first command with
\* the id, by its serial (0: NULL)
list_find(list, id) ==
    LET hits == {i \in 1 .. Len(list) : list[i].id = id}
    IN IF hits = {}
       THEN 0
       ELSE list[CHOOSE k \in hits : \A j \in hits : k <= j].serial

\* list_del(&found->list)
list_del(list, serial) ==
    IF EntryAt(list, serial) = 0 THEN list
    ELSE Erase(list, EntryAt(list, serial))

\* the state after main has initialized the manager and the driver and has
\* sent its command with send_command; the threads start from there
InitIoctl ==
    /\ fd = DeviceFd
    /\ mapped_region = MapBase
    /\ region_size = RegionSize
    /\ initialized = TRUE
    /\ free_blocks = << <<0, RegionSize>> >>
    /\ allocated_blocks = <<>>
    /\ last = NoIoctlCall
    /\ calls = 1
    /\ allocation_mutex = Unlocked
    /\ pc = [t \in Threads |-> "idle"]
    /\ frame = [t \in Threads |-> NoIoctlFrame]
    /\ mem = [d \in 0 .. (RegionSize - 1) |-> 0]
    /\ open_fds = {DeviceFd, DeviceFd + 1}
    /\ mappings = {MapBase}
    /\ phase = "acquired"
    /\ device_fd = DeviceFd + 1
    /\ cmd = [NoCommand EXCEPT !.opcode = 1]
    /\ cmd_list = ioctl_send_command(<<>>, [NoCommand EXCEPT !.opcode = 1], 1)
    /\ delivered = {}
    /\ dev_mutex = Unlocked
    /\ cmd_lock = Unlocked
    /\ freed = <<>>

\* what no statement of the ioctl touches
IoctlFrame ==
    UNCHANGED <<region_vars, allocator_vars, allocation_mutex, device_vars,
                device_fd, cmd>>

\* thread t moves from statement from to statement to with locals f
IoctlGoto(t, from, to, f) ==
    /\ pc[t] = from
    /\ Goto(t, to, f)
    /\ IoctlFrame

\* a thread calls ioctl(fd, CXL_MEM_SEND_COMMAND / CXL_MEM_QUERY_CMD, arg)
IoctlEnter(t) ==
    \E op \in {"send", "query"}, id \in CommandIds :
        /\ Call(MaxIoctlCalls)
        /\ IoctlGoto(t, "idle", "mutex_lock",
                     [NoIoctlFrame EXCEPT !.op = op, !.id = id,
                                          !.call = calls + 1])
        /\ UNCHANGED <<cmd_list, delivered, kernel_vars, last>>

\* mutex_lock(&dev->dev_mutex); switch (cmd)
IoctlMutexLock(t) ==
    /\ kernel_lock(dev_mutex, dev_mutex', t)
    /\ IoctlGoto(t, "mutex_lock",
                 IF frame[t].op = "send" THEN "send_setup" ELSE "query_lock",
                 frame[t])
    /\ UNCHANGED <<cmd_list, delivered, cmd_lock, freed, last, calls>>

\* copy_from_user and kzalloc, either of which may fail, and the set-up of
\* the command
SendSetup(t) ==
    \E failed \in BOOLEAN :
        /\ IoctlGoto(t, "send_setup",
                     IF failed THEN "mutex_unlock" ELSE "send_lock",
                     [frame[t] EXCEPT !.ret = IF failed THEN -1 ELSE 0])
        /\ UNCHANGED <<cmd_list, delivered, kernel_vars, last, calls>>

\* spin_lock(&dev->cmd_lock) of the send case
SendLock(t) ==
    /\ kernel_lock(cmd_lock, cmd_lock', t)
    /\ IoctlGoto(t, "send_lock", "send_add", frame[t])
    /\ UNCHANGED <<cmd_list, delivered, dev_mutex, freed, last, calls>>

\* list_add_tail(&fpga_cmd->list, &dev->cmd_list); spin_unlock
SendAdd(t) ==
    /\ cmd_list' = ioctl_send_command(cmd_list,
                       [id |-> frame[t].id, opcode |-> 1, address |-> 0,
                        data |-> 0], frame[t].call)
    /\ cmd_lock' = Unlocked
    /\ IoctlGoto(t, "send_add", "mutex_unlock",
                 [frame[t] EXCEPT !.found = frame[t].call])
    /\ UNCHANGED <<delivered, dev_mutex, freed, last, calls>>

\* spin_lock(&dev->cmd_lock) of the query case
QueryLock(t) ==
    /\ kernel_lock(cmd_lock, cmd_lock', t)
    /\ IoctlGoto(t, "query_lock", "query_find", frame[t])
    /\ UNCHANGED <<cmd_list, delivered, dev_mutex, freed, last, calls>>

\* the search of the list and, if (found), the copy of status and result
QueryFind(t) ==
    LET serial == list_find(cmd_list, frame[t].id)
        found == cmd_list[EntryAt(cmd_list, serial)]
    IN /\ IF serial = 0
          THEN IoctlGoto(t, "query_find", "query_unlock",
                         [frame[t] EXCEPT !.status = CXL_CMD_STATUS_INVALID,
                                          !.result = 0])
          ELSE IoctlGoto(t, "query_find",
                         IF found.status # CXL_CMD_STATUS_ACTIVE
                         THEN "query_del" ELSE "query_unlock",
                         [frame[t] EXCEPT !.found = serial,
                                          !.status = found.status,
                                          !.result = found.result])
       /\ UNCHANGED <<cmd_list, delivered, kernel_vars, last, calls>>

\* list_del(&found->list); kfree(found)
QueryDel(t) ==
    /\ cmd_list' = list_del(cmd_list, frame[t].found)
    /\ freed' = Append(freed, frame[t].found)
    /\ IoctlGoto(t, "query_del", "query_unlock", frame[t])
    /\ UNCHANGED <<delivered, dev_mutex, cmd_lock, last, calls>>

\* spin_unlock(&dev->cmd_lock) after the search
QueryUnlock(t) ==
    /\ cmd_lock' = Unlocked
    /\ IoctlGoto(t, "query_unlock", "mutex_unlock", frame[t])
    /\ UNCHANGED <<cmd_list, delivered, dev_mutex, freed, last, calls>>

\* copy_to_user of the query; mutex_unlock(&dev->dev_mutex); return ret
IoctlExit(t) ==
    /\ dev_mutex' = Unlocked
    /\ IoctlGoto(t, "mutex_unlock", "idle", NoIoctlFrame)
    /\ last' = [caller |-> t] @@ frame[t]
    /\ delivered' =
           IF frame[t].op = "query" /\ frame[t].found # 0
              /\ frame[t].status # CXL_CMD_STATUS_ACTIVE
           THEN delivered \cup {[serial |-> frame[t].found,
                                 id |-> frame[t].id]}
           ELSE delivered
    /\ UNCHANGED <<cmd_list, cmd_lock, freed, calls>>

Ioctl(t) ==
    \/ IoctlEnter(t)
    \/ IoctlMutexLock(t)
    \/ SendSetup(t)
    \/ SendLock(t)
    \/ SendAdd(t)
    \/ QueryLock(t)
    \/ QueryFind(t)
    \/ QueryDel(t)
    \/ QueryUnlock(t)
    \/ IoctlExit(t)

NextIoctl ==
    \/ \E t \in Threads : Ioctl(t)
    \/ Complete

SpecIoctl == InitIoctl /\ [][NextIoctl]_vars

----------------------------------------------------------------------------
(* Extents as sets of bytes *)

Bytes(b) == Offset(b) .. (Offset(b) + Size(b) - 1)

Overlap(a, b) == Bytes(a) \cap Bytes(b) # {}

\* every entry of both lists, free entries first
Extents == free_blocks \o allocated_blocks

\* the step just taken was a call of allocate / of free
AllocateStep == calls' = calls + 1 /\ last'.op = "allocate"
FreeStep == calls' = calls + 1 /\ last'.op = "free"

ListsUnchanged == UNCHANGED <<free_blocks, allocated_blocks>>

----------------------------------------------------------------------------
\* C1: after every call (successful or failing) stats reports
\* total == used + free, with total the Region size, used the sum of the
\* allocated lengths and free the sum of the free lengths.
C1_StatsBalanced ==
    /\ get_stats.total = get_stats.used + get_stats.free
    /\ get_stats.total = RegionSize
    /\ last.op = "get_stats" => last.stats[1] = last.stats[2] + last.stats[3]

C1_Witness ==
    /\ last.op = "get_stats"
    /\ last.stats[2] > 0
    /\ last.stats[3] > 0
    /\ Len(free_blocks) >= 2
    /\ Len(allocated_blocks) >= 2

\* C2: the extents of the free list and of the allocated list are pairwise
\* disjoint and their union is exactly [0, Region size): every byte of the
\* Region is in exactly one extent, and no extent reaches outside it.
C2_Partition ==
    /\ \A x \in 0 .. (region_size - 1) :
           \E i \in 1 .. Len(Extents) :
               /\ x \in Bytes(Extents[i])
               /\ \A j \in 1 .. Len(Extents) :
                      x \in Bytes(Extents[j]) => j = i
    /\ \A i \in 1 .. Len(Extents) :
           Offset(Extents[i]) + Size(Extents[i]) <= region_size

C2_Witness ==
    /\ Len(allocated_blocks) >= 2
    /\ Len(free_blocks) >= 2
    /\ \E i \in 1 .. Len(free_blocks) : Offset(free_blocks[i]) % 4 # 0
    /\ last.op = "free" /\ last.ok

\* C3: in every reachable state no two entries of the free list are
\* adjacent: there are no free entries i and j with
\* offset_i + length_i == offset_j.
C3_NoAdjacentFree ==
    \A i, j \in 1 .. Len(free_blocks) :
        i # j => Offset(free_blocks[i]) + Size(free_blocks[i])
                     # Offset(free_blocks[j])

\* C4: when a successful release returns, the free list contains no two
\* adjacent entries.
C4_NoAdjacentAfterRelease ==
    (last.op = "free" /\ last.ok) =>
        \A i, j \in 1 .. Len(free_blocks) :
            i # j => Offset(free_blocks[i]) + Size(free_blocks[i])
                         # Offset(free_blocks[j])

\* C5: a successful allocate(size, alignment) with alignment a power of two
\* returns an offset that is a multiple of alignment.
C5_Aligned ==
    (last.op = "allocate" /\ last.ok /\ IsPowerOfTwo(last.alignment)) =>
        Wrap(last.ret - get_direct_pointer(0)) % last.alignment = 0

\* a grant at alignment 4 carved from a free block that started unaligned:
\* the waste in front of it went back to the free list
C5_Witness ==
    /\ last.op = "allocate" /\ last.ok /\ last.alignment = 4
    /\ Size(last.grant) > 0
    /\ \E i \in 1 .. Len(free_blocks) :
           /\ Offset(free_blocks[i]) % 4 # 0
           /\ Offset(free_blocks[i]) + Size(free_blocks[i]) = Offset(last.grant)

\* C6: the extent granted by a successful allocate lies entirely inside
\* [0, Region size) and overlaps no other live extent.
C6_GrantInsideAndDisjoint ==
    (last.op = "allocate" /\ last.ok) =>
        /\ Offset(last.grant) < region_size
        /\ Offset(last.grant) + Size(last.grant) <= region_size
        /\ allocated_blocks[Len(allocated_blocks)] = last.grant
        /\ \A i \in 1 .. (Len(allocated_blocks) - 1) :
               ~Overlap(allocated_blocks[i], last.grant)

C6_Witness ==
    /\ last.op = "allocate" /\ last.ok
    /\ Size(last.grant) > 0
    /\ Offset(last.grant) + Size(last.grant) = region_size
    /\ Len(allocated_blocks) = 3
    /\ \A i \in 1 .. 2 : Size(allocated_blocks[i]) > 0

\* C7: allocate(size, alignment), alignment a power of two, fails (returns
\* null and grants nothing) whenever the requested size exceeds the total
\* free space.
C7_OutOfMemory ==
    [][(AllocateStep /\ IsPowerOfTwo(last'.alignment)
          /\ last'.size > SumSizes(free_blocks))
         => (last'.ret = NULL /\ ListsUnchanged)]_vars

\* C8: allocate with size 0 (and a power-of-two alignment) is rejected: it
\* returns null, grants no extent and leaves both lists unchanged.
C8_ZeroSizeRejected ==
    [][(AllocateStep /\ last'.size = 0 /\ IsPowerOfTwo(last'.alignment))
         => (last'.ret = NULL /\ ListsUnchanged)]_vars

\* C9: allocate with an alignment that is not a power of two (alignment 0
\* included) and a size > 0 is rejected: it returns null and leaves both
\* lists unchanged.
C9_BadAlignmentRejected ==
    [][(AllocateStep /\ ~IsPowerOfTwo(last'.alignment) /\ last'.size > 0)
         => (last'.ret = NULL /\ ListsUnchanged)]_vars

\* C10: after a successful release(o), a second release(o) with no call in
\* between fails and changes neither list.
C10_SecondReleaseFails ==
    [][(last.op = "free" /\ last.ok /\ FreeStep /\ last'.ptr = last.ptr)
         => (~last'.ok /\ ListsUnchanged)]_vars

\* the offset free computes from the pointer of the call just made
FreedOffset == Wrap(last'.ptr - get_direct_pointer(0))

\* C11: release(o) succeeds only if o is exactly the start offset of a live
\* allocated extent, and then removes that extent; any other offset (one
\* strictly inside a live extent included) is rejected and leaves the free
\* and allocated lists unchanged.
C11_ExactOffsetOnly ==
    [][FreeStep =>
         LET starts == {i \in 1 .. Len(allocated_blocks) :
                            Offset(allocated_blocks[i]) = FreedOffset}
         IN /\ last'.ok => \E i \in starts :
                               allocated_blocks' = Erase(allocated_blocks, i)
            /\ starts = {} => (~last'.ok /\ ListsUnchanged)]_vars

\* a release of an offset strictly inside a live extent was rejected
C11_Witness ==
    /\ last.op = "free" /\ ~last.ok
    /\ \E i \in 1 .. Len(allocated_blocks) :
           LET o == Wrap(last.ptr - get_direct_pointer(0))
           IN /\ Offset(allocated_blocks[i]) < o
              /\ o < Offset(allocated_blocks[i]) + Size(allocated_blocks[i])

\* C12: an extent enters the allocated list only through a successful
\* allocate that returned its offset, stays in it through every later
\* allocate and every release of a different offset, and leaves it only
\* through one successful release of its own offset.
C12_Lifecycle ==
    [][LET ab == allocated_blocks
           entered == Len(ab') > Len(ab)
           left == Len(ab') < Len(ab)
       IN /\ entered =>
                 /\ AllocateStep /\ last'.ok
                 /\ \E s \in 0 .. (WordMod - 1) :
                        ab' = Append(ab, <<Wrap(last'.ret - get_direct_pointer(0)), s>>)
          /\ AllocateStep => SubSeq(ab', 1, Len(ab)) = ab
          /\ left =>
                 /\ FreeStep /\ last'.ok
                 /\ \E i \in 1 .. Len(ab) :
                        Offset(ab[i]) = FreedOffset /\ ab' = Erase(ab, i)
          /\ ab' # ab => (entered \/ left)]_vars

----------------------------------------------------------------------------
\* the callers that are inside a call
Inside == {t \in Threads : pc[t] # "idle"}

\* the lists are those of caller t's entry, untouched
AtEntryLists(t) ==
    /\ free_blocks = frame[t].entry_free
    /\ allocated_blocks = frame[t].entry_allocated

\* C13: allocate, free and get_stats on one allocator are mutually
\* exclusive: at most one caller is inside a call and it owns the mutex; a
\* caller that starts reading the lists finds them whole (as the previous
\* call left them, every byte of the region accounted for); when a call
\* is about to return, the lists and its result are exactly what the call
\* run alone on the lists of its entry would give (so the run equals the
\* calls in the order of their lock acquisitions); a stats call reports
\* sums taken from one and the same state; allocated extents never overlap.
C13_Atomic ==
    /\ Cardinality(Inside) <= 1
    /\ \A t \in Inside : allocation_mutex = t
    /\ \A t \in Threads :
           LET f == frame[t]
           IN /\ pc[t] \in {"allocate_scan", "free_find", "get_stats_used"} =>
                     /\ AtEntryLists(t)
                     /\ SumSizes(free_blocks) + SumSizes(allocated_blocks)
                            = region_size
              /\ pc[t] = "allocate_return" =>
                     LET r == allocate(f.entry_free, f.entry_allocated,
                                       f.request, f.alignment)
                     IN /\ free_blocks = r.free
                        /\ allocated_blocks = r.alloc
                        /\ f.found = r.found
                        /\ f.found => <<f.aligned_offset, f.size>> = r.grant
              /\ pc[t] = "free_return" =>
                     LET r == free(f.entry_free, f.entry_allocated, f.ptr)
                     IN /\ free_blocks = r.free
                        /\ allocated_blocks = r.alloc
                        /\ f.found = r.ret
              /\ pc[t] = "get_stats_return" =>
                     /\ AtEntryLists(t)
                     /\ f.total = f.used + f.free
                     /\ f.used = SumSizes(f.entry_allocated)
                     /\ f.free = SumSizes(f.entry_free)
    /\ \A i, j \in 1 .. Len(allocated_blocks) :
           i # j => ~Overlap(allocated_blocks[i], allocated_blocks[j])

\* caller t2 is about to return from a successful allocate made after a
\* successful allocate of caller t1, with t1's extent still allocated
C13_Witness ==
    /\ pc["t2"] = "allocate_return"
    /\ frame["t2"].found
    /\ frame["t2"].size > 0
    /\ last.op = "allocate"
    /\ last.caller = "t1"
    /\ last.ok
    /\ last.grant[2] > 0
    /\ \E i \in 1 .. Len(frame["t2"].entry_allocated) :
           frame["t2"].entry_allocated[i] = last.grant

----------------------------------------------------------------------------
\* the call just made was a read_data or a write_data
IsAccess == last.op \in {"write_data", "read_data"}

\* the addresses of the manager's region, [base, base + size)
RegionAddresses == {mapped_region + k : k \in 0 .. (region_size - 1)}

\* C14: on a ready Region a read or write with offset + length == size
\* succeeds; one with offset + length > size fails and copies no byte; and
\* a call that succeeds touches only bytes of [0, size), for every offset
\* and length.
C14_BoundsChecked ==
    (IsAccess /\ last.ready) =>
        /\ last.offset + last.length = region_size => last.ok
        /\ last.offset + last.length > region_size =>
               /\ ~last.ok
               /\ last.touched = {}
               /\ last.op = "write_data" => mem = last.before
        /\ last.ok => last.touched \subseteq RegionAddresses

\* C15: read and write fail and touch no byte when the Region is not
\* ready: before a successful initialize, after a failed initialize, after
\* cleanup; for every offset and length.
C15_NotReadyRejected ==
    (IsAccess /\ ~last.ready) =>
        /\ ~last.ok
        /\ last.touched = {}
        /\ last.op = "write_data" => mem = last.before

\* the byte range [offset, offset + length) of the call just made
CallRange == last.offset .. (last.offset + last.length - 1)

\* C16: on a ready Region, with offset + length <= size (a) a write
\* succeeds, puts the buffer's bytes at [offset, offset + length) and leaves
\* every other byte as it was, and (b) a read of the range of an earlier
\* write, no later write having touched that range, succeeds and yields the
\* bytes written.
C16_RoundTrip ==
    /\ (last.op = "write_data" /\ last.ready
            /\ last.offset + last.length <= region_size) =>
           /\ last.ok
           /\ \A d \in DOMAIN mem :
                  mem[d] = IF d \in CallRange
                           THEN last.data[d - last.offset + 1]
                           ELSE last.before[d]
    /\ (last.op = "read_data" /\ last.ready /\ last.pending.valid
            /\ last.offset = last.pending.offset
            /\ last.length = last.pending.length) =>
           /\ last.ok
           /\ last.out = last.pending.data

\* a read gave back the bytes of an earlier write of several bytes into the
\* middle of the region, after another write elsewhere in the region
C16_Witness ==
    /\ last.op = "read_data"
    /\ last.ready
    /\ last.ok
    /\ last.pending.valid
    /\ last.offset = last.pending.offset
    /\ last.length = last.pending.length
    /\ last.offset > 0
    /\ last.length > 1
    /\ last.out = last.pending.data
    /\ \E d \in DOMAIN mem : d \notin CallRange /\ mem[d] # 0

\* C17: get_direct_pointer(offset) returns null exactly when the Region is
\* not ready or offset >= size, and base + offset otherwise; it changes no
\* state of the Region.
C17_PointerOrNone ==
    /\ [](last.op = "get_direct_pointer" =>
             /\ (last.ret = NULL) <=> (~last.ready \/ last.offset >= region_size)
             /\ last.ret # NULL => last.ret = mapped_region + last.offset)
    /\ [][last'.op = "get_direct_pointer" =>
              UNCHANGED <<region_vars, device_vars>>]_vars

\* a call that ran cleanup was just made
IsRelease == last.op \in {"cleanup", "destroy", "cxl_cleanup"}

\* C18: cleanup may be called any number of times and on a manager whose
\* initialize never succeeded: it never unmaps a mapping or closes a
\* descriptor that is not live (none is released twice), one call
\* (cxl_cleanup's explicit cleanup and destructor together included) makes
\* at most one munmap and one close, and a call on a manager that is not
\* initialized makes no system call and changes nothing.
C18_CleanupIdempotent ==
    /\ [](IsRelease =>
             /\ ~last.stale
             /\ Len(last.munmaps) <= 1
             /\ Len(last.closes) <= 1
             /\ ~last.was_initialized =>
                    last.munmaps = <<>> /\ last.closes = <<>>
             /\ ~initialized)
    /\ [][(last'.op \in {"cleanup", "destroy", "cxl_cleanup"} /\ ~initialized)
             => UNCHANGED <<region_vars, mem, open_fds, mappings>>]_vars

\* cxl_cleanup on an initialized manager: one munmap and one close, made by
\* the explicit cleanup, none by the destructor that follows
C18_Witness ==
    /\ last.op = "cxl_cleanup"
    /\ last.was_initialized
    /\ Len(last.munmaps) = 1
    /\ Len(last.closes) = 1
    /\ ~initialized
    /\ open_fds = {}
    /\ mappings = {}

----------------------------------------------------------------------------
\* every command submitted so far, by serial and id: the commands of the
\* list and the commands already delivered
Submitted ==
    {[serial |-> cmd_list[i].serial, id |-> cmd_list[i].id] :
         i \in 1 .. Len(cmd_list)} \cup delivered

\* C19: every submitted command carries a fresh id, assigned monotonically:
\* of two commands the one submitted later has the greater id, so no two
\* commands ever submitted, and no two entries of the list, have equal ids.
C19_FreshIds ==
    \A a, b \in Submitted : a.serial < b.serial => a.id < b.id

\* the step just taken was a query of the driver, made by a program itself
\* or by a pass of wait_for_response's loop
PollStep ==
    \/ last'.op = "query" /\ calls' = calls + 1
    \/ /\ last'.op = "wait_for_response"
       /\ device_fd >= 0
       /\ calls' = calls + 1 \/ last' # last

\* C20: a query for id k returns ACTIVE (Pending) while the command
\* submitted with id k is not yet terminal; once the device has marked it
\* COMPLETED the query returns COMPLETED with its result and removes it;
\* and once the terminal value of command k has been returned to a query,
\* every later query for k returns INVALID (Unknown).
C20_PollOnce ==
    [][PollStep =>
          LET k == last'.id
          IN /\ \A i \in 1 .. Len(cmd_list) :
                    cmd_list[i].id = k =>
                        /\ cmd_list[i].status = CXL_CMD_STATUS_ACTIVE =>
                               last'.status = CXL_CMD_STATUS_ACTIVE
                        /\ cmd_list[i].status = CXL_CMD_STATUS_COMPLETED =>
                               /\ last'.status = CXL_CMD_STATUS_COMPLETED
                               /\ last'.result = cmd_list[i].result
                               /\ \A j \in 1 .. Len(cmd_list') :
                                      cmd_list'[j].serial # cmd_list[i].serial
             /\ (\E d \in delivered : d.id = k) =>
                    last'.status = CXL_CMD_STATUS_INVALID]_vars

----------------------------------------------------------------------------
\* the statuses a command ends in
Terminal == {CXL_CMD_STATUS_COMPLETED, CXL_CMD_STATUS_ERROR}

\* the entry of the list submitted as number n
EntryOf(list, n) == {list[i] : i \in {j \in 1 .. Len(list) : list[j].serial = n}}

\* C21: a command is created ACTIVE (Pending), moves to a terminal status
\* (COMPLETED or ERROR) at most once and never returns to ACTIVE; and once a
\* query has reported a terminal status for an id, no later query for that
\* id reports ACTIVE.
C21_NeverPendingAgain ==
    [][/\ \A e \in EntryOf(cmd_list', last'.serial) :
              (last'.op \in {"send_command", "ioctl_send"}
                   /\ calls' = calls + 1 /\ last'.ok) =>
                  e.status = CXL_CMD_STATUS_ACTIVE
       /\ \A i \in 1 .. Len(cmd_list) :
              \A e \in EntryOf(cmd_list', cmd_list[i].serial) :
                  cmd_list[i].status \in Terminal =>
                      e.status = cmd_list[i].status
       /\ PollStep =>
              ((\E d \in delivered : d.id = last'.id) =>
                   last'.status # CXL_CMD_STATUS_ACTIVE)]_vars

\* the answer of a query that found no command
Unknown(call) == call.status = CXL_CMD_STATUS_INVALID /\ call.result = 0

\* C22: a query returns the same answer, INVALID with result 0, for an id
\* that was never submitted and for an id whose terminal value an earlier
\* query has already consumed, so the result does not tell the two apart.
C22_UnknownAlike ==
    [][PollStep =>
          LET k == last'.id
          IN /\ (\A s \in Submitted : s.id # k) => Unknown(last')
             /\ (\E d \in delivered : d.id = k) => Unknown(last')]_vars

\* C23: wait_for_response on a command that never reaches a terminal status
\* does not poll for ever: it stops after its timeout and returns to the
\* caller.
C23_AwaitReturns == Waiting ~> ~Waiting

\* C24: a query that finds its command still ACTIVE (Pending) leaves the
\* list of commands as it was: the command is neither removed nor modified,
\* so it is still there, ACTIVE, for a later query to report.
C24_PendingPollKeeps ==
    [][(PollStep /\ last'.status = CXL_CMD_STATUS_ACTIVE) =>
          /\ cmd_list' = cmd_list
          /\ delivered' = delivered
          /\ \E e \in EntryOf(cmd_list', last'.serial) :
                 e.id = last'.id /\ e.status = CXL_CMD_STATUS_ACTIVE]_vars

\* a pass of wait_for_response has found its command ACTIVE and the loop
\* goes on with the command still in the list, beside another command
C24_Witness ==
    /\ Waiting
    /\ last.status = CXL_CMD_STATUS_ACTIVE
    /\ Len(cmd_list) >= 2
    /\ \E e \in EntryOf(cmd_list, last.serial) :
           e.status = CXL_CMD_STATUS_ACTIVE

\* the threads between the search of the list and the end of the removal
Searching == {t \in Threads : pc[t] \in {"query_find", "query_del"}}

\* C25: with queries for one id and submissions of other commands running
\* concurrently, the search for a terminal command and its removal are one
\* atomic step for the other threads: no thread searches or changes the
\* list while another is between its search and its removal, the terminal
\* value of a command is returned to at most one query, and a command is
\* handed to kfree at most once.
C25_ConsumedOnce ==
    /\ [](/\ \A t \in Searching, u \in Threads :
                 u # t => pc[u] \notin {"query_find", "query_del", "send_add"}
          /\ \A i, j \in 1 .. Len(freed) : i # j => freed[i] # freed[j])
    /\ [][\A t \in Threads :
              (pc[t] = "mutex_unlock" /\ pc'[t] = "idle"
                   /\ frame[t].op = "query" /\ frame[t].status \in Terminal) =>
                  \A d \in delivered : d.serial # frame[t].found]_vars

\* a query has removed a terminal command and is about to return it while
\* the other thread, querying the same id, waits for the device's mutex and
\* a command with another id is in the list
C25_Witness ==
    \E t, u \in Threads :
        /\ t # u
        /\ pc[t] = "query_unlock"
        /\ frame[t].status \in Terminal
        /\ freed = <<frame[t].found>>
        /\ pc[u] = "mutex_lock"
        /\ frame[u].op = "query"
        /\ frame[u].id = frame[t].id
        /\ \E i \in 1 .. Len(cmd_list) : cmd_list[i].id # frame[t].id

\* the step just taken was a call of send_command
SubmitStep == last'.op = "send_command" /\ calls' = calls + 1

\* C26: send_command always succeeds: for every opcode, address and data,
\* and in every state of the channel, it reports success and the command is
\* in the list afterwards, ACTIVE (Pending); it has no failure outcome.
C26_SubmitAlwaysSucceeds ==
    [][SubmitStep =>
          /\ last'.ok
          /\ Len(cmd_list') = Len(cmd_list) + 1
          /\ \E e \in EntryOf(cmd_list', last'.serial) :
                 /\ e.status = CXL_CMD_STATUS_ACTIVE
                 /\ e.id = last'.id]_vars

\* the offset lies in an extent of the allocated list
Owned(address, ab) ==
    \E i \in 1 .. Len(ab) :
        address \in Offset(ab[i]) .. (Offset(ab[i]) + Size(ab[i]) - 1)

\* C27: send_command does not check the command's address against the
\* allocator: a command that is submitted is appended ACTIVE with exactly
\* the address given, whether or not that address lies in an allocated
\* extent, and neither a submission nor a query changes the allocator's
\* free or allocated list.
C27_AddressNotValidated ==
    [][/\ (SubmitStep /\ last'.ok) =>
              /\ Len(cmd_list') = Len(cmd_list) + 1
              /\ \A i \in 1 .. Len(cmd_list) : cmd_list'[i] = cmd_list[i]
              /\ cmd_list'[Len(cmd_list')].address = cmd'.address
              /\ cmd_list'[Len(cmd_list')].status = CXL_CMD_STATUS_ACTIVE
       /\ (SubmitStep \/ PollStep) => ListsUnchanged]_vars

\* the extent a command names has just been released while the command is
\* ACTIVE, and a command naming an offset outside the region is in the list
C27_Witness ==
    /\ last.op = "free"
    /\ last.ok
    /\ allocated_blocks = <<>>
    /\ \E i, j \in 1 .. Len(cmd_list) :
           /\ cmd_list[i].status = CXL_CMD_STATUS_ACTIVE
           /\ cmd_list[i].address = Wrap(last.ptr - get_direct_pointer(0))
           /\ cmd_list[j].status = CXL_CMD_STATUS_ACTIVE
           /\ cmd_list[j].address >= RegionSize

\* the step just taken was allocate(size, alignment)
Allocated(size, alignment) ==
    AllocateStep /\ last'.size = size /\ last'.alignment = alignment

\* C28: on a fresh allocator over a region of 1024 bytes allocate(100, 64)
\* returns offset 0, and allocate(200, 64) made next returns offset 128;
\* the two extents are recorded with lengths 128 and 256, and the stats are
\* then used == 384 and free == 640.
C28_TwoGrants ==
    [][/\ (calls = 0 /\ Allocated(100, 64)) =>
              /\ last'.ret = get_direct_pointer(0)
              /\ allocated_blocks' = << <<0, 128>> >>
       /\ (calls = 1 /\ last.op = "allocate" /\ last.size = 100
               /\ last.alignment = 64 /\ Allocated(200, 64)) =>
              /\ last'.ret = get_direct_pointer(128)
              /\ allocated_blocks' = << <<0, 128>>, <<128, 256>> >>
              /\ get_stats'.used = 384
              /\ get_stats'.free = 640
              /\ get_stats'.total = 1024]_vars

C28_Witness ==
    /\ calls = 2
    /\ last.op = "allocate"
    /\ last.size = 200
    /\ last.alignment = 64
    /\ last.ret = get_direct_pointer(128)
    /\ allocated_blocks = << <<0, 128>>, <<128, 256>> >>
    /\ free_blocks = << <<384, 640>> >>

\* the entry of the allocated list that a release of FreedOffset removes
ReleasedExtent ==
    LET hits == {i \in 1 .. Len(allocated_blocks) :
                     Offset(allocated_blocks[i]) = FreedOffset}
    IN allocated_blocks[CHOOSE k \in hits : \A j \in hits : k <= j]

\* the two extents touch: one ends where the other starts
Adjacent(a, b) ==
    \/ Offset(a) + Size(a) = Offset(b)
    \/ Offset(b) + Size(b) = Offset(a)

\* the stats before and after a successful release of an extent of length
\* L: free grows by L, used shrinks by L, total stays
StatsMoved ==
    /\ get_stats'.free = get_stats.free + Size(ReleasedExtent)
    /\ get_stats'.used = get_stats.used - Size(ReleasedExtent)
    /\ get_stats'.total = get_stats.total

\* C29: a successful release of a live extent of length L increases the
\* free count of the stats by exactly L, decreases the used count by exactly
\* L and leaves total unchanged, and the freed extent is merged with every
\* free extent physically adjacent to it: afterwards one free entry holds
\* it and no other free extent touches that entry.
C29_ReleaseStatsAndMerge ==
    [][(FreeStep /\ last'.ok) =>
          /\ StatsMoved
          /\ Size(ReleasedExtent) > 0 =>
                 \E i \in 1 .. Len(free_blocks') :
                     /\ Bytes(ReleasedExtent) \subseteq Bytes(free_blocks'[i])
                     /\ \A j \in 1 .. Len(free_blocks') :
                            (j # i /\ Size(free_blocks'[j]) > 0) =>
                                ~Adjacent(free_blocks'[i], free_blocks'[j])]_vars

\* the positions of the free list whose entry fits the request of the
\* allocate just made
Fitting ==
    {i \in 1 .. Len(free_blocks) :
         Fits(free_blocks[i], AlignUp(last'.size, last'.alignment),
              last'.alignment)}

\* the positions of the free list that hold the entry pushed by the release
\* made last, which is the entry inserted most recently
Newest ==
    {i \in 1 .. Len(free_blocks) :
         Offset(free_blocks[i]) = Wrap(last.ptr - get_direct_pointer(0))}

\* C30 (as stated): allocate scans the free list in the order in which the
\* extents were inserted and grants from the first fitting extent in that
\* order; so right after a release, whose extent is the one inserted last,
\* an allocate that another free extent can serve does not grant from the
\* extent just released.
C30_InsertionOrder ==
    [][(/\ last.op = "free" /\ last.ok
        /\ AllocateStep /\ last'.ok /\ last'.grant[2] > 0
        /\ \A i \in 1 .. Len(Extents) : Size(Extents[i]) > 0) =>
          \A i \in Newest :
              Fitting \ Newest # {} =>
                  last'.grant[1] \notin Bytes(free_blocks[i])]_vars

\* C30 (amended): allocate scans the free list in the order of the vector
\* and grants from the first entry in that order that fits, even when a
\* fitting entry at a lower address comes later in the vector; when no
\* entry fits it fails and leaves the lists alone.  The order of the vector
\* is ascending offset order after every successful release, which sorts
\* it, and the entries that allocate adds afterwards follow at the end.
C30_VectorOrder ==
    [][/\ AllocateStep =>
              /\ Fitting = {} => (~last'.ok /\ ListsUnchanged)
              /\ \A i \in Fitting :
                     (\A j \in Fitting : i <= j) =>
                         /\ last'.grant[1] =
                                AlignedOffset(Offset(free_blocks[i]),
                                              last'.alignment)
                         /\ \A k \in 1 .. (Len(free_blocks) - 1) :
                                free_blocks'[k] =
                                    free_blocks[IF k < i THEN k ELSE k + 1]
       /\ (FreeStep /\ last'.ok) =>
              \A k \in 1 .. (Len(free_blocks') - 1) :
                  ~PairLess(free_blocks'[k + 1], free_blocks'[k])]_vars

\* an allocate has granted from an entry of the vector although a fitting
\* free extent lies at a lower address, not touching the grant
C30_Witness ==
    /\ last.op = "allocate"
    /\ last.ok
    /\ last.grant[2] > 0
    /\ \A i \in 1 .. Len(Extents) : Size(Extents[i]) > 0
    /\ \E i \in 1 .. Len(free_blocks) :
           /\ Offset(free_blocks[i]) + Size(free_blocks[i]) < last.grant[1]
           /\ Fits(free_blocks[i], last.grant[2], last.alignment)

----------------------------------------------------------------------------
\* C31: for every requested size and every power-of-two alignment of the
\* machine word, the length recorded by a successful allocate is the
\* smallest multiple of the alignment that is >= the requested size; so it
\* is never smaller than the request.
C31_RoundedUp ==
    [][(AllocateStep /\ last'.ok /\ IsPowerOfTwo(last'.alignment)) =>
          /\ last'.grant[2] % last'.alignment = 0
          /\ last'.grant[2] >= last'.size
          /\ last'.grant[2] - last'.size < last'.alignment]_vars

\* the free list after free extent number i, (o, L), has given the extent
\* (a, s): without (o, L), with (o, a - o) if a > o, with
\* (a + s, L - s - (a - o)) if L > s + (a - o), the rest as it was
FreeAfterGrant(fb, i, a, s) ==
    LET o == Offset(fb[i])
        L == Size(fb[i])
    IN Erase(fb, i)
           \o (IF a > o THEN << <<o, a - o>> >> ELSE <<>>)
           \o (IF L > s + (a - o) THEN << <<a + s, L - s - (a - o)>> >>
               ELSE <<>>)

\* C32: a successful allocate that takes the extent (a, s) from the free
\* extent (o, L) removes (o, L) from the free list, adds (o, a - o) iff
\* a > o, adds (a + s, L - s - (a - o)) iff L > s + (a - o), adds (a, s) to
\* the allocated list, and leaves every other entry of both lists as it
\* was.
C32_ExactEffect ==
    [][(AllocateStep /\ last'.ok) =>
          LET a == last'.grant[1]
              s == last'.grant[2]
          IN /\ allocated_blocks' = Append(allocated_blocks, <<a, s>>)
             /\ \E i \in 1 .. Len(free_blocks) :
                    /\ Offset(free_blocks[i]) <= a
                    /\ Size(free_blocks[i])
                           >= s + (a - Offset(free_blocks[i]))
                    /\ free_blocks' = FreeAfterGrant(free_blocks, i, a, s)]_vars

\* an allocate has just carved its extent out of the middle of a free
\* extent that was not the only one: waste and remainder were both added
C32_Witness ==
    /\ last.op = "allocate"
    /\ last.ok
    /\ last.grant[2] > 0
    /\ Len(free_blocks) >= 3
    /\ free_blocks[Len(free_blocks) - 1][1]
           + free_blocks[Len(free_blocks) - 1][2] = last.grant[1]
    /\ free_blocks[Len(free_blocks)][1] = last.grant[1] + last.grant[2]

\* the lists as the constructor of the allocator is said to leave them: one
\* free extent from 0 as long as the total of the stats, nothing allocated
WholeRegionFree ==
    /\ free_blocks = << <<0, get_stats.total>> >>
    /\ allocated_blocks = <<>>

\* C33: until the first allocate the free list is the single extent
\* (0, Region size), with the Region size the total that get_stats
\* reports, and the allocated list is empty, in whichever order the
\* manager was initialized and the allocator constructed.
C33_InitialFreeList ==
    /\ WholeRegionFree
    /\ [][(WholeRegionFree /\ ~AllocateStep) => WholeRegionFree']_vars

\* C34: whenever allocate returns null the free list and the allocated list
\* are exactly as they were before the call, whether the manager is
\* initialized, was never initialized or has been cleaned up, and for every
\* size and alignment.
C34_FailureChangesNothing ==
    [][(AllocateStep /\ last'.ret = NULL) => ListsUnchanged]_vars


\* C35: after any sequence of allocate and release calls in which every
\* granted extent has been released exactly once (no entry is left in the
\* allocated list), the allocator is back in its initial state: the free
\* list is the single extent (0, Region size).
C35_BackToInitial ==
    (allocated_blocks = <<>>) => free_blocks = << <<0, get_region_size>> >>

\* C36: in every reachable state of the allocator every entry of the free
\* list and of the allocated list has length > 0, and no two entries of the
\* allocated list have the same offset.
C36_PositiveAndDistinct ==
    /\ \A i \in 1 .. Len(Extents) : Size(Extents[i]) > 0
    /\ \A i, j \in 1 .. Len(allocated_blocks) :
           Offset(allocated_blocks[i]) = Offset(allocated_blocks[j]) => i = j

\* C37: when read_data or write_data runs concurrently with cleanup on the
\* same manager, no byte is copied after the buffer has been unmapped:
\* every byte memcpy copies is at an address inside a live mapping.
C37_NoCopyAfterUnmap == (last.op = "memcpy") => last.mapped

\* C38: after send_command has submitted command c, wait_for_response
\* reports the status and result of c itself and of no other command,
\* whatever was submitted earlier and is still in the driver's list: a
\* wait_for_response that follows the send and returns has been answered by
\* the entry that send created.
C38_OwnResponse ==
    [][(/\ last.op = "send_command"
        /\ last.ok
        /\ last'.op = "wait_for_response"
        /\ last'.returned) => last'.serial = last.serial]_vars

\* the command submitted as number n is in the list with status ACTIVE
Accepted(n) ==
    \E e \in EntryOf(cmd_list, n) : e.status = CXL_CMD_STATUS_ACTIVE

\* C39: every command accepted by the driver's send path is eventually
\* executed: its status eventually leaves ACTIVE (Pending) for a terminal
\* status, which is what lets a wait_for_response issued after a successful
\* send_command return.
C39_EventuallyExecuted ==
    \A n \in 1 .. MaxChannelCalls : Accepted(n) ~> ~Accepted(n)

\* C40: for every sequence of initialize and cleanup calls on one manager
\* (initialize called again while initialized, and a failing initialize after
\* a successful one, included) at most one mapping is live at any time, and
\* once the manager has been destroyed every mapping and descriptor that a
\* successful initialize obtained has been released.
C40_NothingLeaked ==
    /\ Cardinality(mappings) <= 1
    /\ last.op \in {"destroy", "cxl_cleanup"} =>
           mappings = {} /\ open_fds = {}

====
